---- MODULE Spec2Model ----
(***************************************************************************)
(* AudioViz5: the audio feature extractor (AudioAnalyserProvider) and the  *)
(* pulse / ripple kinetics of the presets that keep a pulse list           *)
(* (WaveKnot, WaveKnotFat, WaveKnotFatParam, WaveKnotOrganic,               *)
(* Bars3DRadiate, TunnelRipple).                                           *)
(*                                                                         *)
(* One behaviour follows one component: `component` is chosen in Init and  *)
(* never changes.  The provider is driven by setAudioElement calls, React  *)
(* effect commits, animation-frame ticks and Meyda callbacks; a preset is  *)
(* driven by its useFrame callback, one action per frame, whose inputs     *)
(* (frame delta, analyserData) are drawn from small sets.                  *)
(*                                                                         *)
(* Numbers.  JavaScript numbers are modelled in fixed point: the integer n *)
(* stands for n / ONE.  Frame deltas are whole multiples of the preset's   *)
(* decay half-life, for which Math.pow(0.5, delta / halfLife) is an exact  *)
(* power of two.  A Float32Array store rounds to 24 significant bits       *)
(* (fround); ONE = 2^27 keeps three more bits than that, so the rounding   *)
(* is visible in the model.                                                *)
(***************************************************************************)
EXTENDS Integers, Sequences, FiniteSets, TLC

VARIABLES
    component,      \* the component this behaviour follows
    \* ---- AudioAnalyserProvider
    audioElement,   \* useState: the audio element, or NULL
    effect,         \* React's record of the effect: the deps it last ran with, and the
                    \* pipeline its cleanup closes over (0: it returned no cleanup)
    pipelines,      \* every pipeline the effect ever built, live or released
    rms,            \* useState: rms
    frequency,      \* useMemo: the shared frequency buffer
    waveform,       \* useMemo: the shared waveform buffer
    buffers,        \* which arrays the snapshot's frequency and waveform are (identities)
    beatRef,        \* useRef: { isOnset, confidence }
    bandsRef,       \* useRef: { lowAvg, midAvg, highAvg, onsets }
    error,          \* an error that escaped a handler, or "none"
    \* ---- presets
    pulses,         \* useRef: the live pulse / ripple list (each pulse also carries the
                    \* position pos0 and amplitude amp0 it was constructed with)
    uniforms,       \* useRef: the packed uniform arrays and the count
    refs,           \* the preset's other useRef values
    \* ---- history
    frames,         \* number of useFrame callbacks run
    quiet,          \* every analyserData read so far was that of a provider with no source
    input,          \* what the last frame or Meyda callback read (a frame: with its prevRms)
    last            \* what the last step did: its operation and inputs

providerVars ==
    <<audioElement, effect, pipelines, rms, frequency, waveform, buffers, beatRef, bandsRef,
      error>>
presetVars == <<pulses, uniforms, refs, frames, quiet, input>>
vars == <<component, audioElement, effect, pipelines, rms, frequency, waveform, buffers, beatRef,
          bandsRef, error, pulses, uniforms, refs, frames, quiet, input, last>>

----------------------------------------------------------------------------
(* Bounds of the model *)

\* number of useFrame callbacks a behaviour runs
MaxFrames == 3
\* number of pipelines a behaviour builds (effect set-ups)
MaxAttach == 2
\* length of the frequency buffer (1024 in the source)
BinCount == 8
----------------------------------------------------------------------------
(* Fixed-point arithmetic *)

ONE == 2^27

\* floor(x * num / den) without an intermediate product beyond 32 bits
MulDiv(x, num, den) == (x \div den) * num + ((x % den) * num) \div den

\* the number num / den
Fix(num, den) == MulDiv(ONE, num, den)

\* a * b for fixed-point a and b (b split in three so that no product overflows)
MulFix(a, b) ==
    MulDiv(a, b \div 2^18, 2^9) + MulDiv(a, (b \div 2^9) % 2^9, 2^18)
        + ((a \div 2^18) * (b % 2^9) + ((a % 2^18) * (b % 2^9)) \div 2^18) \div 2^9

\* x * (num / den)^n, one factor at a time
RECURSIVE PowMul(_, _, _, _)
PowMul(x, num, den, n) ==
    IF n = 0 THEN x
    ELSE LET y == MulDiv(x, num, den)
         IN  IF y = 0 THEN 0 ELSE PowMul(y, num, den, n - 1)

\* the whole number nearest to a / b
Nearest(a, b) == a \div b + (IF 2 * (a % b) >= b THEN 1 ELSE 0)

Min(a, b) == IF a < b THEN a ELSE b
Max(a, b) == IF a > b THEN a ELSE b

RECURSIVE SumSeq(_)
SumSeq(s) == IF s = <<>> THEN 0 ELSE Head(s) + SumSeq(Tail(s))

\* arr.reduce((a, b) => a + b, 0) over arr[from .. to-1] (0-based, to exclusive)
RECURSIVE SumRange(_, _, _)
SumRange(arr, from, to) ==
    IF from >= to THEN 0 ELSE arr[from + 1] + SumRange(arr, from + 1, to)

\* the number of significant bits of x > 0
RECURSIVE BitLength(_)
BitLength(x) == IF x = 0 THEN 0 ELSE 1 + BitLength(x \div 2)

\* Math.fround: the store into a Float32Array keeps 24 significant bits,
\* rounding to nearest, ties to even
MantissaBits == 24
fround(x) ==
    LET n == BitLength(x) IN
    IF n <= MantissaBits THEN x
    ELSE LET u == 2^(n - MantissaBits)
             q == x \div u
             r == x % u
         IN  IF 2 * r > u \/ (2 * r = u /\ q % 2 = 1) THEN (q + 1) * u ELSE q * u

----------------------------------------------------------------------------
(* Inputs *)

NULL == "null"
Elements == {"audioA", "audioB"}

\* byte values a frequency bin takes in the model
ByteValues == {0, 100, 150, 255}

\* frequency buffers: BinCount bins, one value below a split and one from it on
Spectra(values, splits) ==
    { [i \in 1..BinCount |-> IF i <= k THEN lo ELSE hi] :
        k \in splits, lo \in values, hi \in values }

\* what the analyser node writes on a tick: flat spectra, bass only, treble only
TickData == Spectra(ByteValues, {0}) \cup Spectra({0, 255}, {BinCount \div 2})

\* what the analyser node writes into the waveform buffer on a tick: silence (every
\* sample at the centre value 128) or a full-scale square wave
WaveData ==
    { [i \in 1..BinCount |-> 128],
      [i \in 1..BinCount |-> IF i % 2 = 1 THEN 255 ELSE 0] }

\* what one tick reads from the analyser node: a silent spectrum comes with a silent
\* waveform, any other spectrum with the square wave
TickReads ==
    { [frequency |-> d,
       waveform |-> CHOOSE w \in WaveData : (w[1] = 128) <=> (\A k \in 1..BinCount : d[k] = 0)] :
        d \in TickData }

\* a spectrum with one value in each third of the buffer
ThirdsSpectrum(low, mid, high) ==
    LET third == BinCount \div 3
    IN  [i \in 1..BinCount |->
            IF i <= third THEN low ELSE IF i <= 2 * third THEN mid ELSE high]

\* a spectrum with energy in the last bin only
LastBinOnly == [i \in 1..BinCount |-> IF i = BinCount THEN 255 ELSE 0]

\* what a Meyda callback sees: the features Meyda reports (rms 0.05 or 0.10, or no rms
\* at all) and the spectrum the analyser node holds at that moment (silence, the last
\* bin only, and a quiet and a slightly louder spectrum around the band thresholds)
MeydaFeatures ==
    { [hasRms |-> TRUE, rms |-> Fix(5, 100), freq |-> ThirdsSpectrum(0, 0, 0)],
      [hasRms |-> TRUE, rms |-> Fix(5, 100), freq |-> ThirdsSpectrum(89, 76, 71)],
      [hasRms |-> TRUE, rms |-> Fix(10, 100), freq |-> ThirdsSpectrum(90, 77, 72)],
      [hasRms |-> TRUE, rms |-> Fix(10, 100), freq |-> LastBinOnly],
      [hasRms |-> FALSE, rms |-> 0, freq |-> ThirdsSpectrum(0, 0, 0)] }

----------------------------------------------------------------------------
(* AudioAnalyserProvider *)

Silence == [i \in 1..BinCount |-> 0]

\* the pipelines that still hold an animation-frame request or connected nodes
Live == { i \in 1..Len(pipelines) : pipelines[i].raf \/ pipelines[i].connected }

\* a setter that refuses a new source while another one is attached
SetAudioElement_Rejecting(el) ==
    /\ component = "AudioAnalyserProvider"
    /\ error = "none"
    /\ el # NULL => Len(pipelines) < MaxAttach
    /\ IF audioElement # NULL /\ el \notin {NULL, audioElement}
       THEN audioElement' = audioElement /\ error' = "AttachmentError"
       ELSE audioElement' = el /\ error' = error
    /\ last' = [op |-> "setAudioElement", arg |-> el, was |-> audioElement]
    /\ UNCHANGED <<component, effect, pipelines, rms, frequency, waveform, buffers, beatRef,
                   bandsRef>>
    /\ UNCHANGED presetVars

\* setAudioElement: the useState setter; an equal value bails out
SetAudioElement(el) ==
    /\ component = "AudioAnalyserProvider"
    /\ error = "none"
    /\ el # NULL => Len(pipelines) < MaxAttach
    /\ audioElement' = el
    /\ last' = [op |-> "setAudioElement", arg |-> el, was |-> audioElement]
    /\ UNCHANGED <<component, effect, pipelines, rms, frequency, waveform, buffers, beatRef, bandsRef,
                   error>>
    /\ UNCHANGED presetVars

\* a cleanup that forgets cancelAnimationFrame
Cleanup_KeepsLoop(ps, i) ==
    [ps EXCEPT ![i] = [@ EXCEPT !.meyda = FALSE, !.connected = FALSE,
                                !.teardowns = @ + 1]]

\* the cleanup the effect returned: cancelAnimationFrame, meydaAnalyzer?.stop(),
\* disconnect, ctx.close()
Cleanup(ps, i) ==
    [ps EXCEPT ![i] = [@ EXCEPT !.raf = FALSE, !.meyda = FALSE, !.connected = FALSE,
                                !.teardowns = @ + 1]]

\* the elements a MediaElementAudioSourceNode was ever created for
Sourced(ps) == { ps[i].element : i \in 1..Len(ps) }

\* the set-up half of the effect: build the graph source -> analyser -> destination,
\* start Meyda (which may fail, silently: meydaOk), request the first animation
\* frame.  The closure keeps the rms of the render it was created in.
Setup(ps, el, meydaOk) ==
    Append(ps, [element |-> el, closureRms |-> rms, raf |-> TRUE, meyda |-> meydaOk,
                connected |-> TRUE, teardowns |-> 0])

\* an effect body whose Meyda failure is not caught
EffectBody_MeydaThrows(ps, el, meydaOk, throws) ==
    IF el = NULL THEN [pipelines |-> ps, cleanup |-> 0, error |-> "none"]
    ELSE IF throws THEN [pipelines |-> ps, cleanup |-> 0, error |-> "InvalidStateError"]
    ELSE [pipelines |-> Setup(ps, el, meydaOk), cleanup |-> Len(ps) + 1,
          error |-> IF meydaOk THEN "none" ELSE "MeydaError"]

\* an effect body whose early return for a null element leaves the previous cleanup
\* registered
EffectBody_StaleCleanup(ps, el, meydaOk, throws) ==
    IF el = NULL THEN [pipelines |-> ps, cleanup |-> effect.cleanup, error |-> "none"]
    ELSE IF throws THEN [pipelines |-> ps, cleanup |-> 0, error |-> "InvalidStateError"]
    ELSE [pipelines |-> Setup(ps, el, meydaOk), cleanup |-> Len(ps) + 1, error |-> "none"]

\* the effect body: nothing for a null element; otherwise the set-up, which returns
\* the cleanup.  createMediaElementSource may throw InvalidStateError for an element
\* that already had a source node created for it (throws): the error escapes the
\* effect and nothing is built.
EffectBody(ps, el, meydaOk, throws) ==
    IF el = NULL THEN [pipelines |-> ps, cleanup |-> 0, error |-> "none"]
    ELSE IF throws THEN [pipelines |-> ps, cleanup |-> 0, error |-> "InvalidStateError"]
    ELSE [pipelines |-> Setup(ps, el, meydaOk), cleanup |-> Len(ps) + 1, error |-> "none"]

\* React commits the effect when its dependency [audioElement] changed: the previous
\* cleanup runs first, then the effect body
CommitEffect(meydaOk, throws) ==
    /\ component = "AudioAnalyserProvider"
    /\ error = "none"
    /\ audioElement # effect.deps
    /\ throws => audioElement \in Sourced(pipelines)
    /\ LET cleaned == IF effect.cleanup = 0 THEN pipelines
                      ELSE Cleanup(pipelines, effect.cleanup)
           ran == EffectBody(cleaned, audioElement, meydaOk, throws)
       IN  /\ pipelines' = ran.pipelines
           /\ effect' = [deps |-> audioElement, cleanup |-> ran.cleanup]
           /\ error' = ran.error
    /\ last' = [op |-> "commitEffect", arg |-> audioElement, was |-> effect.deps]
    /\ UNCHANGED <<component, audioElement, rms, frequency, waveform, buffers, beatRef,
                   bandsRef>>
    /\ UNCHANGED presetVars

\* a confidence without the clamp
Confidence_Unclamped(freq) ==
    MulDiv(ONE, SumSeq(freq) - 100 * Len(freq), 155 * Len(freq))

\* Math.min(1, Math.max(0, (avg - 100) / 155)) with avg = sum / length
Confidence(freq) ==
    LET sum == SumSeq(freq)
        n == Len(freq)
    IN  IF sum <= 100 * n THEN 0
        ELSE IF sum - 100 * n >= 155 * n THEN ONE
        ELSE MulDiv(ONE, sum - 100 * n, 155 * n)

\* avg > 140 && currentRms > 0.08
IsOnset(freq, currentRms) ==
    SumSeq(freq) > 140 * Len(freq) /\ currentRms > Fix(8, 100)

\* tick: one animation frame of pipeline i; data and wave are what the analyser node
\* writes into the frequency buffer and the waveform buffer
\* a read that hands back a newly allocated array instead of filling the one passed in
getByteData_Fresh(buffer, data) == [id |-> 3, bytes |-> data]

\* analyser.getByteFrequencyData(array) / getByteTimeDomainData(array): copies the node's
\* current data into the array passed in, as many entries as fit; the array keeps its
\* identity and its length
getByteData(buffer, data) ==
    [id |-> buffer.id,
     bytes |-> [k \in 1..Len(buffer.bytes) |->
                   IF k <= Len(data) THEN data[k] ELSE buffer.bytes[k]]]

Tick(i, data, wave) ==
    /\ component = "AudioAnalyserProvider"
    /\ error = "none"
    /\ i \in 1..Len(pipelines)
    /\ pipelines[i].raf
    /\ LET f == getByteData([id |-> buffers.frequency, bytes |-> frequency], data)
           w == getByteData([id |-> buffers.waveform, bytes |-> waveform], wave)
       IN  /\ frequency' = f.bytes
           /\ waveform' = w.bytes
           /\ buffers' = [frequency |-> f.id, waveform |-> w.id]
           /\ beatRef' = [isOnset |-> IsOnset(f.bytes, pipelines[i].closureRms),
                          confidence |-> Confidence(f.bytes)]
    /\ last' = [op |-> "tick", arg |-> i, was |-> 0]
    /\ UNCHANGED <<component, audioElement, effect, pipelines, rms, bandsRef, error>>
    /\ UNCHANGED presetVars

\* arr.slice(s, e).reduce((a, b) => a + b, 0): the sum and the number of elements summed
SliceSum(arr, s, e) == SumRange(arr, Min(s, Len(arr)), Min(e, Len(arr)))

\* sliceAvg: arr.slice(s, e).reduce(...) / Math.max(1, e - s) / 255
sliceAvg(arr, s, e) == MulDiv(ONE, SliceSum(arr, s, e), Max(1, e - s) * 255)

\* sliceAvg(arr, s, e) > num / den, compared exactly
sliceAvgExceeds(arr, s, e, num, den) ==
    SliceSum(arr, s, e) * den > num * Max(1, e - s) * 255

\* band averages over three ranges of `third` bins each, the bins past 3 * third left out
Bands_EqualThirds(freq) ==
    LET third == Len(freq) \div 3
    IN  [lowAvg |-> sliceAvg(freq, 0, third),
         midAvg |-> sliceAvg(freq, third, third * 2),
         highAvg |-> sliceAvg(freq, third * 2, third * 3),
         onsets |-> [kick |-> sliceAvgExceeds(freq, 0, third, 35, 100),
                     snare |-> sliceAvgExceeds(freq, third, third * 2, 3, 10),
                     hat |-> sliceAvgExceeds(freq, third * 2, third * 3, 28, 100)]]

\* the bands the Meyda callback derives from the spectrum it reads
Bands(freq) ==
    LET third == Len(freq) \div 3
    IN  [lowAvg |-> sliceAvg(freq, 0, third),
         midAvg |-> sliceAvg(freq, third, third * 2),
         highAvg |-> sliceAvg(freq, third * 2, Len(freq)),
         onsets |-> [kick |-> sliceAvgExceeds(freq, 0, third, 35, 100),
                     snare |-> sliceAvgExceeds(freq, third, third * 2, 3, 10),
                     hat |-> sliceAvgExceeds(freq, third * 2, Len(freq), 28, 100)]]

\* the Meyda callback of pipeline i: setRms(features.rms ?? 0), then the band averages
\* and flags from a fresh read of the analyser node
MeydaCallback(i, features) ==
    /\ component = "AudioAnalyserProvider"
    /\ error = "none"
    /\ i \in 1..Len(pipelines)
    /\ pipelines[i].meyda
    /\ rms' = IF features.hasRms THEN features.rms ELSE 0
    /\ bandsRef' = Bands(features.freq)
    /\ last' = [op |-> "meydaCallback", arg |-> i, was |-> 0]
    /\ input' = [data |-> features, prevRms |-> 0]
    /\ UNCHANGED <<component, audioElement, effect, pipelines, frequency, waveform, buffers, beatRef,
                   error>>
    /\ UNCHANGED <<pulses, uniforms, refs, frames, quiet>>

\* the data of the context value: the snapshot consumers read
Snapshot ==
    [frequency |-> frequency, waveform |-> waveform, rms |-> rms, beat |-> beatRef,
     bands |-> bandsRef]

----------------------------------------------------------------------------
(* Presets: common parts *)

\* settings.animationSpeed (the store's default)
settings == [animationSpeed |-> ONE]

\* analyserData.rms as a preset reads it
PresetRms == {0, Fix(3, 100), Fix(5, 100), Fix(7, 100)}

\* frame deltas: a repeated frame (no time passed), one unit, or a long frame (the
\* tab was in the background) of long units
Deltas(unit, long) == {0, unit, long * unit}

\* arr.unshift(x)
Unshift(arr, x) == <<x>> \o arr
\* arr.pop()
Pop(arr) == SubSeq(arr, 1, Len(arr) - 1)
\* arr.slice(0, n)
Slice0(arr, n) == SubSeq(arr, 1, Min(n, Len(arr)))

\* a Float32Array of length n after fill(fill) and the writes arr[i] = values[i]
\* for i < count
Packed(values, fill, count, n) ==
    [i \in 1..n |-> IF i <= count THEN fround(values[i]) ELSE fround(fill)]

\* analyserData is the snapshot of a provider no source was ever attached to: the
\* buffers as allocated, rms 0, beat.isOnset false
NoSource(data) ==
    /\ "frequency" \in DOMAIN data => data.frequency = [i \in 1..BinCount |-> 0]
    /\ "rms" \in DOMAIN data => data.rms = 0
    /\ "beat" \in DOMAIN data => ~data.beat.isOnset

\* what a frame records in `input`
Seen(data) ==
    [data |-> data, prevRms |-> IF "prevRms" \in DOMAIN refs THEN refs.prevRms ELSE 0]

\* what a frame records in `last`
FrameRecord(delta, spawned, evictions) ==
    [op |-> "useFrame", delta |-> delta, spawned |-> spawned, evictions |-> evictions]

----------------------------------------------------------------------------
(* WaveKnotFat *)

\* capacity of the pulse list (12 in the source)
WaveKnotFat_MAX_PULSES == 2

WaveKnotFat_HalfLife == Fix(1, 2)

\* an advance whose decay exponent has the wrong sign
WaveKnotFat_Advance_Growing(list, delta) ==
    LET travelSpeed == MulDiv(Max(Fix(2, 10), settings.animationSpeed), 35, 100)
    IN  [i \in 1..Len(list) |->
            [list[i] EXCEPT
                !.pos = (@ + MulFix(travelSpeed, delta)) % ONE,
                !.amp = PowMul(@, 2, 1, Nearest(delta, WaveKnotFat_HalfLife))]]

\* an advance that ignores the frame time: nothing moves, nothing decays
WaveKnotFat_Advance_Stalled(list, delta) == list

WaveKnotFat_Advance(list, delta) ==
    LET travelSpeed == MulDiv(Max(Fix(2, 10), settings.animationSpeed), 35, 100)
    IN  [i \in 1..Len(list) |->
            [list[i] EXCEPT
                !.pos = (@ + MulFix(travelSpeed, delta)) % ONE,
                !.amp = PowMul(@, 1, 2, Nearest(delta, WaveKnotFat_HalfLife))]]

\* a spike test without the floor on rms
RmsSpike_NoFloor(rmsNow, prevRms) == rmsNow > MulDiv(prevRms, 122, 100)

\* rms > prevRms.current * 1.22 && rms > 0.04
RmsSpike(rmsNow, prevRms) ==
    rmsNow > MulDiv(prevRms, 122, 100) /\ rmsNow > Fix(4, 100)

\* a spawn that adds the new pulse at the end of the list
WaveKnotFat_Spawn_AtEnd(list, onset) ==
    IF ~onset THEN [list |-> list, evictions |-> <<>>]
    ELSE LET pushed == Append(list, [pos |-> 0, amp |-> ONE, amp0 |-> ONE, pos0 |-> 0])
         IN  IF Len(pushed) > WaveKnotFat_MAX_PULSES
             THEN [list |-> Pop(pushed),
                   evictions |-> <<[before |-> pushed, after |-> Pop(pushed)]>>]
             ELSE [list |-> pushed, evictions |-> <<>>]

WaveKnotFat_Spawn(list, onset) ==
    IF ~onset THEN [list |-> list, evictions |-> <<>>]
    ELSE LET pushed == Unshift(list, [pos |-> 0, amp |-> ONE, amp0 |-> ONE,
                                      pos0 |-> 0])
         IN  IF Len(pushed) > WaveKnotFat_MAX_PULSES
             THEN [list |-> Pop(pushed),
                   evictions |-> <<[before |-> pushed, after |-> Pop(pushed)]>>]
             ELSE [list |-> pushed, evictions |-> <<>>]

\* a filter that keeps pulses down to an amplitude of 0.01
WaveKnotFat_Prune_Low(list) == SelectSeq(list, LAMBDA p : p.amp > Fix(1, 100))

WaveKnotFat_Prune(list) == SelectSeq(list, LAMBDA p : p.amp > Fix(2, 100))

GetPos(p) == p.pos
GetAmp(p) == p.amp

WaveKnotFat_Pack(list) ==
    LET count == Min(WaveKnotFat_MAX_PULSES, Len(list))
    IN  [uPulsePos |-> Packed([k \in DOMAIN list |-> GetPos(list[k])], 0, count, WaveKnotFat_MAX_PULSES),
         uPulseAmp |-> Packed([k \in DOMAIN list |-> GetAmp(list[k])], 0, count, WaveKnotFat_MAX_PULSES),
         uPulseCount |-> count]

\* the body of useFrame: the list, the refs, the uniforms and the record of the frame
\* it leaves, from the list and the refs it finds
WaveKnotFat_Frame(list, r, delta, data) ==
    LET moved == WaveKnotFat_Advance(list, delta)
        onset == data.beat.isOnset \/ RmsSpike(data.rms, r.prevRms)
        spawn == WaveKnotFat_Spawn(moved, onset)
        kept == WaveKnotFat_Prune(spawn.list)
    IN  [pulses |-> kept,
         refs |-> [prevRms |-> data.rms],
         uniforms |-> WaveKnotFat_Pack(kept),
         last |-> FrameRecord(delta, IF onset THEN 1 ELSE 0, spawn.evictions)]

WaveKnotFat_useFrame(delta, data) ==
    /\ component = "WaveKnotFat"
    /\ frames < MaxFrames
    /\ LET frame == WaveKnotFat_Frame(pulses, refs, delta, data)
       IN  /\ pulses' = frame.pulses
           /\ refs' = frame.refs
           /\ uniforms' = frame.uniforms
           /\ last' = frame.last
    /\ frames' = frames + 1
    /\ quiet' = (quiet /\ NoSource(data))
    /\ input' = Seen(data)
    /\ UNCHANGED component
    /\ UNCHANGED providerVars

----------------------------------------------------------------------------
(* WaveKnotFatParam *)

\* capacity of the pulse list (16 in the source)
WaveKnotFatParam_MAX_PULSES == 2

RIPPLE_DECAY == Fix(1, 2)
RIPPLE_TRAVEL_SPEED == Fix(8, 10)
RIPPLE_START_POS_SPEED == Fix(7, 100)
PULSE_MIN_AMP == Fix(2, 100)

\* a frame of about 14.2857 s (the tab was in the background), the longest after
\* which RIPPLE_START_POS_SPEED * delta is still below 1: the start offset it leaves
\* is one float32 step short of 1
WrapFrame == 1917396306

\* frame deltas: a repeated frame, one half-life, or the long frame
WaveKnotFatParam_Deltas == {0, RIPPLE_DECAY, WrapFrame}

WaveKnotFatParam_Advance(list, delta) ==
    LET speed == MulFix(RIPPLE_TRAVEL_SPEED, Max(Fix(2, 10), settings.animationSpeed))
    IN  [i \in 1..Len(list) |->
            [list[i] EXCEPT
                !.pos = (@ + MulFix(speed, delta)) % ONE,
                !.amp = PowMul(@, 1, 2, Nearest(delta, RIPPLE_DECAY))]]

WaveKnotFatParam_Spawn(list, onset) ==
    IF ~onset THEN [list |-> list, evictions |-> <<>>]
    ELSE LET pushed == Unshift(list, [pos |-> 0, amp |-> ONE, amp0 |-> ONE,
                                      pos0 |-> 0])
         IN  IF Len(pushed) > WaveKnotFatParam_MAX_PULSES
             THEN [list |-> Pop(pushed),
                   evictions |-> <<[before |-> pushed, after |-> Pop(pushed)]>>]
             ELSE [list |-> pushed, evictions |-> <<>>]

WaveKnotFatParam_Prune(list) == SelectSeq(list, LAMBDA p : p.amp > PULSE_MIN_AMP)

\* posArr[i] = (pulses[i].pos + rippleStartPos.current) % 1
WaveKnotFatParam_Pack(list, rippleStartPos) ==
    LET count == Min(WaveKnotFatParam_MAX_PULSES, Len(list))
        GetOffsetPos(p) == (p.pos + rippleStartPos) % ONE
    IN  [uPulsePos |-> Packed([k \in DOMAIN list |-> GetOffsetPos(list[k])], 0, count, WaveKnotFatParam_MAX_PULSES),
         uPulseAmp |-> Packed([k \in DOMAIN list |-> GetAmp(list[k])], 0, count, WaveKnotFatParam_MAX_PULSES),
         uPulseCount |-> count]

WaveKnotFatParam_useFrame(delta, data) ==
    /\ component = "WaveKnotFatParam"
    /\ frames < MaxFrames
    /\ LET start == (refs.rippleStartPos + MulFix(RIPPLE_START_POS_SPEED, delta)) % ONE
           moved == WaveKnotFatParam_Advance(pulses, delta)
           onset == data.beat.isOnset \/ RmsSpike(data.rms, refs.prevRms)
           spawn == WaveKnotFatParam_Spawn(moved, onset)
           kept == WaveKnotFatParam_Prune(spawn.list)
       IN  /\ pulses' = kept
           /\ refs' = [prevRms |-> data.rms, rippleStartPos |-> start]
           /\ uniforms' = WaveKnotFatParam_Pack(kept, start)
           /\ last' = FrameRecord(delta, IF onset THEN 1 ELSE 0, spawn.evictions)
    /\ frames' = frames + 1
    /\ quiet' = (quiet /\ NoSource(data))
    /\ input' = Seen(data)
    /\ UNCHANGED component
    /\ UNCHANGED providerVars

----------------------------------------------------------------------------
(* WaveKnotOrganic *)

\* capacity of the pulse list (128 in the source)
WaveKnotOrganic_MAX_PULSES == 2

BASS_THRESHOLD == Fix(5, 10000)
TREBLE_THRESHOLD == Fix(9, 10000)
BASS_PULSE_WIDTH == Fix(8, 100)
TREBLE_PULSE_WIDTH == Fix(4, 100)
BASS_DECAY_TIME == Fix(5, 10)
TREBLE_DECAY_TIME == Fix(1, 10)
PULSE_TRAVEL_SPEED == Fix(15, 10)
BASS_COLOR_HUE == Fix(9, 10)
TREBLE_COLOR_HUE == Fix(5, 10)

\* the frequency buffers a preset reads: silence, bass only, treble only, full
PresetSpectra == Spectra({0, 255}, {0, BinCount \div 2})

\* the result of 0 / 0, written as a number no average takes
NaN == -1

\* (sum of freq[from .. to-1] / (to - from)) / 255, the sum taken by a loop from `from`
\* while i < to.  An empty range has sum 0: with to = from the quotient is 0 / 0, with
\* to < from it is 0 / negative = -0.
BandEnergy(freq, from, to) ==
    IF to = from THEN NaN
    ELSE IF to < from THEN 0
    ELSE MulDiv(ONE, SumRange(freq, from, to), (to - from) * 255)

\* an advance that assumes one fixed frame time instead of reading delta
WaveKnotOrganic_Advance_FixedStep(list, delta) ==
    [i \in 1..Len(list) |->
        [list[i] EXCEPT
            !.pos = (@ + MulFix(MulFix(PULSE_TRAVEL_SPEED, TREBLE_DECAY_TIME),
                                settings.animationSpeed)) % ONE,
            !.amp = PowMul(@, 1, 2, Nearest(TREBLE_DECAY_TIME, list[i].decayRate))]]

\* a frame time between the two cooldowns: 0.03 < 0.04 < 0.05
ShortFrame == Fix(4, 100)

\* Math.pow(0.5, delta / decayRate): a whole power of two for whole multiples of the
\* half-life; for the short frame 0.5^(0.04/0.5) = 0.9461 and 0.5^(0.04/0.1) = 0.7579
HalfLifeDecay(amp, delta, decayRate) ==
    IF delta = ShortFrame
    THEN MulFix(amp, IF decayRate = BASS_DECAY_TIME THEN Fix(9461, 10000)
                                                     ELSE Fix(7579, 10000))
    ELSE PowMul(amp, 1, 2, Nearest(delta, decayRate))

\* an advance that also narrows a pulse as it decays
WaveKnotOrganic_Advance_Narrowing(list, delta) ==
    [i \in 1..Len(list) |->
        [list[i] EXCEPT
            !.pos = (@ + MulFix(MulFix(PULSE_TRAVEL_SPEED, delta), settings.animationSpeed))
                        % ONE,
            !.amp = HalfLifeDecay(@, delta, list[i].decayRate),
            !.width = HalfLifeDecay(@, delta, list[i].decayRate)]]

WaveKnotOrganic_Advance(list, delta) ==
    [i \in 1..Len(list) |->
        [list[i] EXCEPT
            !.pos = (@ + MulFix(MulFix(PULSE_TRAVEL_SPEED, delta), settings.animationSpeed))
                        % ONE,
            !.amp = HalfLifeDecay(@, delta, list[i].decayRate)]]

\* frame times of this preset: none, a short frame, one bass half-life (five treble
\* half-lives)
WaveKnotOrganic_Deltas == Deltas(BASS_DECAY_TIME, 1) \cup {ShortFrame}

\* one timer for both bands: any spawn restarts both cooldowns
CooldownTimers_Shared(timers, currentTime, bassSpawn, trebleSpawn) ==
    IF bassSpawn \/ trebleSpawn
    THEN [lastBassTime |-> currentTime, lastTrebleTime |-> currentTime]
    ELSE timers

\* lastBassTime.current = currentTime inside the bass branch, lastTrebleTime.current =
\* currentTime inside the treble branch; each ref is written nowhere else
CooldownTimers(timers, currentTime, bassSpawn, trebleSpawn) ==
    [lastBassTime |-> IF bassSpawn THEN currentTime ELSE timers.lastBassTime,
     lastTrebleTime |-> IF trebleSpawn THEN currentTime ELSE timers.lastTrebleTime]

\* pulses.current.sort((a, b) => b.amp - a.amp): stable, descending by amp
RECURSIVE InsertByAmp(_, _)
InsertByAmp(sorted, p) ==
    IF sorted = <<>> THEN <<p>>
    ELSE IF Head(sorted).amp >= p.amp THEN <<Head(sorted)>> \o InsertByAmp(Tail(sorted), p)
    ELSE <<p>> \o sorted

RECURSIVE SortByAmpDesc(_)
SortByAmpDesc(list) ==
    IF list = <<>> THEN <<>>
    ELSE InsertByAmp(SortByAmpDesc(SubSeq(list, 1, Len(list) - 1)), list[Len(list)])

\* an addPulse that cuts the list without sorting it first
addPulse_Unsorted(st, pulse) ==
    LET pushed == Append(st.list, pulse)
    IN  IF Len(pushed) > WaveKnotOrganic_MAX_PULSES
        THEN LET cut == Slice0(pushed, WaveKnotOrganic_MAX_PULSES)
             IN  [list |-> cut,
                  evictions |-> Append(st.evictions, [before |-> pushed, after |-> cut])]
        ELSE [list |-> pushed, evictions |-> st.evictions]

\* addPulse: push, then on overflow sort by amplitude and keep the first MAX_PULSES;
\* st carries the list and the evictions recorded so far
addPulse(st, pulse) ==
    LET pushed == Append(st.list, pulse)
    IN  IF Len(pushed) > WaveKnotOrganic_MAX_PULSES
        THEN LET cut == Slice0(SortByAmpDesc(pushed), WaveKnotOrganic_MAX_PULSES)
             IN  [list |-> cut,
                  evictions |-> Append(st.evictions, [before |-> pushed, after |-> cut])]
        ELSE [list |-> pushed, evictions |-> st.evictions]

GetWidth(p) == p.width
GetHue(p) == p.hue

\* an updateUniforms without the fill calls: slots beyond count keep what they held
updateUniforms_NoFill(list) ==
    LET count == Min(WaveKnotOrganic_MAX_PULSES, Len(list))
        Kept(name, Get(_)) ==
            [i \in 1..WaveKnotOrganic_MAX_PULSES |->
                IF i <= count THEN fround(Get(list[i])) ELSE uniforms[name][i]]
    IN  [uPulsePos |-> Kept("uPulsePos", GetPos),
         uPulseAmp |-> Kept("uPulseAmp", GetAmp),
         uPulseWidth |-> Kept("uPulseWidth", GetWidth),
         uPulseHue |-> Kept("uPulseHue", GetHue),
         uPulseCount |-> count]

\* updateUniforms
updateUniforms(list) ==
    LET count == Min(WaveKnotOrganic_MAX_PULSES, Len(list))
    IN  [uPulsePos |-> Packed([k \in DOMAIN list |-> GetPos(list[k])], 0, count, WaveKnotOrganic_MAX_PULSES),
         uPulseAmp |-> Packed([k \in DOMAIN list |-> GetAmp(list[k])], 0, count, WaveKnotOrganic_MAX_PULSES),
         uPulseWidth |->
             Packed([k \in DOMAIN list |-> GetWidth(list[k])], Fix(1, 100), count, WaveKnotOrganic_MAX_PULSES),
         uPulseHue |-> Packed([k \in DOMAIN list |-> GetHue(list[k])], 0, count, WaveKnotOrganic_MAX_PULSES),
         uPulseCount |-> count]

WaveKnotOrganic_useFrame(delta, data) ==
    /\ component = "WaveKnotOrganic"
    /\ frames < MaxFrames
    /\ LET currentTime == refs.uTime + MulFix(delta, settings.animationSpeed)
           moved == WaveKnotOrganic_Advance(pulses, delta)
           freq == data.frequency
           bassEnd == (Len(freq) * 15) \div 100
           trebleStart == (Len(freq) * 7) \div 10
           bassEnergy == BandEnergy(freq, 0, bassEnd)
           trebleEnergy == BandEnergy(freq, trebleStart, Len(freq))
           smoothedBass == MulDiv(refs.smoothedBass, 99, 100) + MulDiv(bassEnergy, 1, 100)
           smoothedTreble ==
               MulDiv(refs.smoothedTreble, 99, 100) + MulDiv(trebleEnergy, 1, 100)
           bassSpikeFactor == Max(Fix(11, 10), ONE + 2 * smoothedBass)
           bassSpawn == /\ bassEnergy > BASS_THRESHOLD
                        /\ bassEnergy > MulFix(smoothedBass, bassSpikeFactor)
                        /\ currentTime - refs.lastBassTime > Fix(5, 100)
           trebleSpikeFactor == Max(Fix(105, 100), ONE + MulDiv(smoothedTreble, 3, 2))
           trebleSpawn == /\ trebleEnergy > TREBLE_THRESHOLD
                          /\ trebleEnergy > MulFix(smoothedTreble, trebleSpikeFactor)
                          /\ currentTime - refs.lastTrebleTime > Fix(3, 100)
           bassAmp == Min(ONE, MulDiv(bassEnergy, 3, 2))
           trebleAmp == Min(Fix(8, 10), 2 * trebleEnergy)
           st0 == [list |-> moved, evictions |-> <<>>]
           st1 == IF bassSpawn
                  THEN addPulse(st0, [pos |-> 0, amp |-> bassAmp, width |-> BASS_PULSE_WIDTH,
                                      hue |-> BASS_COLOR_HUE, decayRate |-> BASS_DECAY_TIME,
                                      amp0 |-> bassAmp, pos0 |-> 0])
                  ELSE st0
           st2 == IF trebleSpawn
                  THEN addPulse(st1, [pos |-> 0, amp |-> trebleAmp,
                                      width |-> TREBLE_PULSE_WIDTH, hue |-> TREBLE_COLOR_HUE,
                                      decayRate |-> TREBLE_DECAY_TIME, amp0 |-> trebleAmp,
                                      pos0 |-> 0])
                  ELSE st1
           kept == SelectSeq(st2.list, LAMBDA p : p.amp > Fix(1, 100))
           timers == CooldownTimers(refs, currentTime, bassSpawn, trebleSpawn)
       IN  /\ pulses' = kept
           /\ refs' = [uTime |-> currentTime,
                       smoothedBass |-> smoothedBass,
                       smoothedTreble |-> smoothedTreble,
                       lastBassTime |-> timers.lastBassTime,
                       lastTrebleTime |-> timers.lastTrebleTime]
           /\ uniforms' = updateUniforms(kept)
           /\ last' = FrameRecord(delta,
                                  (IF bassSpawn THEN 1 ELSE 0) + (IF trebleSpawn THEN 1 ELSE 0),
                                  st2.evictions)
    /\ frames' = frames + 1
    /\ quiet' = (quiet /\ NoSource(data))
    /\ input' = Seen(data)
    /\ UNCHANGED component
    /\ UNCHANGED providerVars

----------------------------------------------------------------------------
(* WaveKnot *)

\* size of the uniform arrays (32 in the source)
WaveKnot_MAX_PULSES == 2
\* number of frequency bands (32 in the source)
NUM_BANDS == 2

WaveKnot_HalfLife == Fix(12, 10)

\* THREE.Color.setHSL's helper
hue2rgb(p, q, t0) ==
    LET t == IF t0 < 0 THEN t0 + ONE ELSE IF t0 > ONE THEN t0 - ONE ELSE t0
    IN  IF 6 * t < ONE THEN p + MulFix(q - p, 6 * t)
        ELSE IF 2 * t < ONE THEN q
        ELSE IF 3 * t < 2 * ONE THEN p + MulFix(q - p, 6 * (Fix(2, 3) - t))
        ELSE p

\* new THREE.Color().setHSL(h, s, l)
setHSL(h, s, l) ==
    IF s = 0 THEN [r |-> l, g |-> l, b |-> l]
    ELSE LET p == IF 2 * l <= ONE THEN MulFix(l, ONE + s) ELSE l + s - MulFix(l, s)
             q == 2 * l - p
         IN  [r |-> hue2rgb(q, p, h + Fix(1, 3)),
              g |-> hue2rgb(q, p, h),
              b |-> hue2rgb(q, p, h - Fix(1, 3))]

WaveKnot_Advance(list, delta) ==
    LET travelSpeed == MulDiv(Max(Fix(2, 10), settings.animationSpeed), 35, 100)
    IN  [i \in 1..Len(list) |->
            [list[i] EXCEPT
                !.pos = @ + MulFix(travelSpeed, delta),
                !.amp = PowMul(@, 1, 2, Nearest(delta, WaveKnot_HalfLife))]]

\* the index range of band b
BandRange(freq, b) ==
    LET bandSize == Max(1, Len(freq) \div NUM_BANDS)
        start == b * bandSize
    IN  [start |-> start, end |-> Min(Len(freq), start + bandSize)]

\* prevBands.current[b] = energy for every band (a Float32Array of NUM_BANDS entries)
PrevBands(freq) ==
    [k \in 1..NUM_BANDS |->
        fround(BandEnergy(freq, BandRange(freq, k - 1).start, BandRange(freq, k - 1).end))]

\* a band pulse whose amplitude is not clamped to 0.4
BandPulse_Unclamped(freq, b) ==
    LET start == BandRange(freq, b).start
        end == BandRange(freq, b).end
        energy == BandEnergy(freq, start, end)
        bandNorm == Fix(b, NUM_BANDS - 1)
        width == Fix(18, 1000) - MulDiv(bandNorm, 12, 1000)
        hue == Fix(30, 360) + MulDiv(bandNorm, 170, 360)
        bandGain == Fix(3, 10) + MulDiv(bandNorm, 4, 10)
        amp == MulDiv(MulFix(energy, bandGain), 8, 10)
    IN  [pos |-> 0, amp |-> amp, width |-> width,
         color |-> setHSL(hue, Fix(85, 100), Fix(55, 100)), amp0 |-> amp, pos0 |-> 0]

\* the pulse band b spawns, whatever its energy
BandPulse(freq, b) ==
    LET start == BandRange(freq, b).start
        end == BandRange(freq, b).end
        energy == BandEnergy(freq, start, end)
        bandNorm == Fix(b, NUM_BANDS - 1)
        width == Fix(18, 1000) - MulDiv(bandNorm, 12, 1000)
        hue == Fix(30, 360) + MulDiv(bandNorm, 170, 360)
        bandGain == Fix(3, 10) + MulDiv(bandNorm, 4, 10)
        amp == Min(Fix(4, 10), MulDiv(MulFix(energy, bandGain), 8, 10))
    IN  [pos |-> 0, amp |-> amp, width |-> width,
         color |-> setHSL(hue, Fix(85, 100), Fix(55, 100)), amp0 |-> amp, pos0 |-> 0]

\* the band loop: every band calls addPulse ("no cap")
RECURSIVE BandPulses(_, _)
BandPulses(freq, b) ==
    IF b >= NUM_BANDS THEN <<>> ELSE <<BandPulse(freq, b)>> \o BandPulses(freq, b + 1)

\* the additional ripple from the top 30% of the spectrum
HighFreqPulses(freq) ==
    LET highFreqStart == (Len(freq) * 7) \div 10
        highFreqAvg == BandEnergy(freq, highFreqStart, Len(freq))
        amp == Min(Fix(25, 100), MulDiv(highFreqAvg, 12, 10))
    IN  IF highFreqAvg > Fix(15, 100)
        THEN <<[pos |-> 0, amp |-> amp, width |-> Fix(8, 1000),
                color |-> setHSL(Fix(65, 100), Fix(8, 10), Fix(6, 10)), amp0 |-> amp,
                pos0 |-> 0]>>
        ELSE <<>>

\* a frame that removes no pulse
WaveKnot_Prune_KeepAll(list) == list

WaveKnot_Prune(list) == SelectSeq(list, LAMBDA p : p.amp > Fix(8, 1000) /\ p.pos <= ONE)

GetR(p) == p.color.r
GetG(p) == p.color.g
GetB(p) == p.color.b

WaveKnot_Pack(list) ==
    LET visible == Slice0(list, WaveKnot_MAX_PULSES)
        count == Len(visible)
    IN  [uPulsePos |-> Packed([k \in DOMAIN visible |-> GetPos(visible[k])], 0, count, WaveKnot_MAX_PULSES),
         uPulseAmp |-> Packed([k \in DOMAIN visible |-> GetAmp(visible[k])], 0, count, WaveKnot_MAX_PULSES),
         uPulseWidth |-> Packed([k \in DOMAIN visible |-> GetWidth(visible[k])], Fix(5, 1000), count, WaveKnot_MAX_PULSES),
         uPulseColR |-> Packed([k \in DOMAIN visible |-> GetR(visible[k])], 0, count, WaveKnot_MAX_PULSES),
         uPulseColG |-> Packed([k \in DOMAIN visible |-> GetG(visible[k])], 0, count, WaveKnot_MAX_PULSES),
         uPulseColB |-> Packed([k \in DOMAIN visible |-> GetB(visible[k])], 0, count, WaveKnot_MAX_PULSES),
         uPulseCount |-> count]

WaveKnot_useFrame(delta, data) ==
    /\ component = "WaveKnot"
    /\ frames < MaxFrames
    /\ LET moved == WaveKnot_Advance(pulses, delta)
           bands == BandPulses(data.frequency, 0)
           high == HighFreqPulses(data.frequency)
           kept == WaveKnot_Prune(moved \o bands \o high)
       IN  /\ pulses' = kept
           /\ uniforms' = WaveKnot_Pack(kept)
           /\ last' = FrameRecord(delta, Len(WaveKnot_Prune(bands \o high)), <<>>)
           /\ refs' = [prevBands |-> PrevBands(data.frequency)]
    /\ frames' = frames + 1
    /\ quiet' = (quiet /\ NoSource(data))
    /\ input' = Seen(data)
    /\ UNCHANGED component
    /\ UNCHANGED providerVars

----------------------------------------------------------------------------
(* Bars3DRadiate *)

\* capacity of the pulse list (128 in the source)
Bars3DRadiate_MAX_PULSES == 3

Bars3DRadiate_RIPPLE_DECAY == 7 * ONE
Bars3DRadiate_PULSE_MIN_AMP == Fix(2, 10000)

\* the frequency buffers Bars3DRadiate reads: full, top half, top quarter, silence
CentroidSpectra ==
    { [i \in 1..BinCount |-> IF i <= k THEN 0 ELSE 255] :
        k \in {0, BinCount \div 2, (3 * BinCount) \div 4, BinCount} }

\* analyserData.rms as Bars3DRadiate reads it
Bars3DRadiate_Rms == {0, Fix(7, 100)}

RECURSIVE WeightedSum(_, _)
WeightedSum(freq, i) ==
    IF i >= Len(freq) THEN 0 ELSE i * freq[i + 1] + WeightedSum(freq, i + 1)

\* centroid / freq.length, the centroid being the weighted mean bin index (0 for silence)
CentroidNorm(freq) ==
    LET total == SumSeq(freq)
    IN  IF total > 0 /\ Len(freq) > 0
        THEN MulDiv(ONE, WeightedSum(freq, 0), total * Len(freq))
        ELSE 0

\* the pulses an onset unshifts, and the pops that follow
Bars3DRadiate_Spawn(list, onset, centroidNorm) ==
    IF ~onset THEN [list |-> list, spawned |-> 0, evictions |-> <<>>]
    ELSE LET ampBoost == Fix(15, 10) + MulDiv(centroidNorm, 35, 10)
             sigma == 7 * ONE - 5 * centroidNorm
             amp2 == MulDiv(ampBoost, 8, 10)
             amp3 == MulDiv(ampBoost, 6, 10)
             l1 == Unshift(list, [radius |-> 0, amp |-> ampBoost, sigma |-> sigma,
                                  amp0 |-> ampBoost, pos0 |-> 0])
             l2 == IF centroidNorm > Fix(45, 100)
                   THEN Unshift(l1, [radius |-> 0, amp |-> amp2,
                                     sigma |-> Max(2 * ONE, MulDiv(sigma, 7, 10)),
                                     amp0 |-> amp2, pos0 |-> 0])
                   ELSE l1
             l3 == IF centroidNorm > Fix(7, 10)
                   THEN Unshift(l2, [radius |-> 0, amp |-> amp3,
                                     sigma |-> Max(2 * ONE, MulDiv(sigma, 5, 10)),
                                     amp0 |-> amp3, pos0 |-> 0])
                   ELSE l2
             cut == Slice0(l3, Bars3DRadiate_MAX_PULSES)
         IN  [list |-> cut,
              spawned |-> Len(l3) - Len(list),
              evictions |-> IF Len(l3) > Bars3DRadiate_MAX_PULSES
                            THEN <<[before |-> l3, after |-> cut]>> ELSE <<>>]

\* radius is kept in whole grid units: RIPPLE_TRAVEL_SPEED * delta
Bars3DRadiate_Advance(list, delta) ==
    [i \in 1..Len(list) |->
        [list[i] EXCEPT
            !.radius = @ + MulDiv(delta, 150, ONE),
            !.amp = PowMul(@, 1, 2, Nearest(delta, Bars3DRadiate_RIPPLE_DECAY))]]

Bars3DRadiate_useFrame(delta, data) ==
    /\ component = "Bars3DRadiate"
    /\ frames < MaxFrames
    /\ LET onset == data.beat.isOnset \/ RmsSpike(data.rms, refs.prevRms)
           spawn == Bars3DRadiate_Spawn(pulses, onset, CentroidNorm(data.frequency))
           moved == Bars3DRadiate_Advance(spawn.list, delta)
           kept == SelectSeq(moved, LAMBDA p : p.amp > Bars3DRadiate_PULSE_MIN_AMP)
       IN  /\ pulses' = kept
           /\ refs' = [prevRms |-> data.rms]
           /\ last' = FrameRecord(delta, spawn.spawned, spawn.evictions)
    /\ frames' = frames + 1
    /\ quiet' = (quiet /\ NoSource(data))
    /\ input' = Seen(data)
    /\ UNCHANGED <<component, uniforms>>
    /\ UNCHANGED providerVars

----------------------------------------------------------------------------
(* TunnelRipple *)

\* capacity of the ripple list (128 in the source)
MAX_RIPPLES == 2

RIPPLE_SPEED == Fix(1, 2)
HUE_SHIFT_SPEED == Fix(1, 10)
BEAT_THRESHOLD == Fix(5, 1000)

\* the frame deltas of TunnelRipple are whole multiples of this
TunnelRipple_FrameUnit == Fix(1, 2)

\* Date.now() at the first frame, in ms; the clock then advances with the frame deltas
FirstFrameTime == 100000

\* delta seconds in whole milliseconds
Millis(delta) == ((delta \div 2^17) * 1000) \div 2^10

\* the frequency buffers TunnelRipple reads (it uses their mean only): silence, full,
\* bass only
TunnelSpectra ==
    Spectra({0, 255}, {0}) \cup {[i \in 1..BinCount |-> IF i <= BinCount \div 2 THEN 255 ELSE 0]}

\* analyserData.rms as TunnelRipple reads it
TunnelRms == {0, Fix(7, 100)}

\* frequency.reduce((a, b) => a + b, 0) / frequency.length / 255
Energy(freq) == BandEnergy(freq, 0, Len(freq))

\* a detectBeat without the debounce: only the BPM window filters the onsets
detectBeat_NoDebounce(r, data, currentTime) ==
    LET rmsSpike == data.rms > MulDiv(r.prevRms, 115, 100) /\ data.rms > BEAT_THRESHOLD
        onset == data.beat.isOnset \/ rmsSpike
        timeDiff == currentTime - r.lastBeatTime
        seen == [r EXCEPT !.prevRms = data.rms]
        pushed == Append(r.beatHistory, currentTime)
    IN  IF ~onset THEN [beat |-> FALSE, refs |-> seen]
        ELSE IF 60000 >= 40 * timeDiff /\ 60000 <= 500 * timeDiff
        THEN [beat |-> TRUE,
              refs |-> [seen EXCEPT
                          !.beatHistory = IF Len(pushed) > 10 THEN Tail(pushed) ELSE pushed,
                          !.lastBeatTime = currentTime]]
        ELSE [beat |-> FALSE, refs |-> seen]

\* detectBeat(currentTime): its result and the refs it leaves
detectBeat(r, data, currentTime) ==
    LET rmsSpike == data.rms > MulDiv(r.prevRms, 115, 100) /\ data.rms > BEAT_THRESHOLD
        onset == data.beat.isOnset \/ rmsSpike
        timeDiff == currentTime - r.lastBeatTime
        seen == [r EXCEPT !.prevRms = data.rms]
        pushed == Append(r.beatHistory, currentTime)
    IN  IF ~onset THEN [beat |-> FALSE, refs |-> seen]
        ELSE IF timeDiff < 200 THEN [beat |-> FALSE, refs |-> seen]
        \* bpm = 60000 / timeDiff; MIN_BPM <= bpm <= MAX_BPM
        ELSE IF 60000 >= 40 * timeDiff /\ 60000 <= 500 * timeDiff
        THEN [beat |-> TRUE,
              refs |-> [seen EXCEPT
                          !.beatHistory = IF Len(pushed) > 10 THEN Tail(pushed) ELSE pushed,
                          !.lastBeatTime = currentTime]]
        ELSE [beat |-> FALSE, refs |-> seen]

\* x * RIPPLE_DECAY^n for RIPPLE_DECAY = 0.98, half a second (30 frames of 60 fps)
\* at a time
HalfSecondDecay == PowMul(ONE, 49, 50, 30)

RECURSIVE Decay60(_, _)
Decay60(x, n) ==
    IF n >= 30 THEN Decay60(MulFix(x, HalfSecondDecay), n - 30)
    ELSE PowMul(x, 49, 50, n)

\* position += RIPPLE_SPEED * delta * animationSpeed;
\* amplitude *= 0.98^(delta * 60), delta * 60 being a whole number of 60 fps frames
TunnelRipple_Advance(list, delta) ==
    [i \in 1..Len(list) |->
        [list[i] EXCEPT
            !.position = @ + MulFix(MulFix(RIPPLE_SPEED, delta), settings.animationSpeed),
            !.amplitude = Decay60(@, ((delta \div 2^20) * 60) \div 2^7)]]

TunnelRipple_Prune(list) ==
    SelectSeq(list, LAMBDA p : p.amplitude > Fix(1, 100) /\ p.position <= ONE)

GetPosition(p) == p.position
GetAmplitude(p) == p.amplitude

\* a pack that writes the amplitudes into the position array and the positions into
\* the amplitude array
TunnelRipple_Pack_Swapped(list) ==
    LET count == Min(MAX_RIPPLES, Len(list))
    IN  [uRipplePositions |-> Packed([k \in DOMAIN list |-> GetAmplitude(list[k])], 0, count, MAX_RIPPLES),
         uRippleAmplitudes |-> Packed([k \in DOMAIN list |-> GetPosition(list[k])], 0, count, MAX_RIPPLES),
         uRippleHues |-> Packed([k \in DOMAIN list |-> GetHue(list[k])], 0, count, MAX_RIPPLES),
         uRippleCount |-> count]

TunnelRipple_Pack(list) ==
    LET count == Min(MAX_RIPPLES, Len(list))
    IN  [uRipplePositions |-> Packed([k \in DOMAIN list |-> GetPosition(list[k])], 0, count, MAX_RIPPLES),
         uRippleAmplitudes |-> Packed([k \in DOMAIN list |-> GetAmplitude(list[k])], 0, count, MAX_RIPPLES),
         uRippleHues |-> Packed([k \in DOMAIN list |-> GetHue(list[k])], 0, count, MAX_RIPPLES),
         uRippleCount |-> count]

\* the body of useFrame: the list, the refs, the uniforms and the record of the frame
\* it leaves, from the list and the refs it finds
TunnelRipple_Frame(list, r, delta, data) ==
    LET kept == TunnelRipple_Prune(TunnelRipple_Advance(list, delta))
        currentTime == r.now + Millis(delta)
        det == detectBeat(r, data, currentTime)
        energy == Energy(data.frequency)
        energyRipple == energy > Fix(4, 10)
                          /\ currentTime - det.refs.lastBeatTime > 500
        create == det.beat \/ energyRipple
        hue == (r.currentHue + HUE_SHIFT_SPEED) % ONE
        amplitude == IF energyRipple THEN MulDiv(energy, 15, 10) ELSE ONE
        pushed == Unshift(kept, [position |-> 0, amplitude |-> amplitude, hue |-> hue,
                                 timestamp |-> currentTime, amp0 |-> amplitude,
                                 pos0 |-> 0])
        cut == Slice0(pushed, MAX_RIPPLES)
        after == IF create THEN cut ELSE kept
    IN  [pulses |-> after,
         refs |-> [det.refs EXCEPT
                      !.now = currentTime,
                      !.currentHue = IF create THEN hue ELSE @,
                      !.lastBeatTime = IF energyRipple THEN currentTime ELSE @],
         uniforms |-> TunnelRipple_Pack(after),
         last |-> FrameRecord(delta, IF create THEN 1 ELSE 0,
                              IF create /\ Len(pushed) > MAX_RIPPLES
                              THEN <<[before |-> pushed, after |-> cut]>> ELSE <<>>)]

TunnelRipple_useFrame(delta, data) ==
    /\ component = "TunnelRipple"
    /\ frames < MaxFrames
    /\ LET frame == TunnelRipple_Frame(pulses, refs, delta, data)
       IN  /\ pulses' = frame.pulses
           /\ refs' = frame.refs
           /\ uniforms' = frame.uniforms
           /\ last' = frame.last
    /\ frames' = frames + 1
    /\ quiet' = (quiet /\ NoSource(data))
    /\ input' = Seen(data)
    /\ UNCHANGED component
    /\ UNCHANGED providerVars

----------------------------------------------------------------------------
(* Band and range averages, as functions of the frequency buffer *)

\* an average and the index range [from, to) it was taken over
RangeAverage(from, to, value) == [from |-> from, to |-> to, value |-> value]

\* the extractor's thirds (sliceAvg divides by Math.max(1, e - s))
Extractor_Averages(freq) ==
    LET third == Len(freq) \div 3
    IN  <<RangeAverage(0, third, sliceAvg(freq, 0, third)),
          RangeAverage(third, third * 2, sliceAvg(freq, third, third * 2)),
          RangeAverage(third * 2, Len(freq), sliceAvg(freq, third * 2, Len(freq)))>>

\* WaveKnot's NUM_BANDS band energies
WaveKnot_Averages(freq) ==
    [b \in 1..NUM_BANDS |->
        LET r == BandRange(freq, b - 1)
        IN  RangeAverage(r.start, r.end, BandEnergy(freq, r.start, r.end))]

\* WaveKnotOrganic's bass (bottom 15%) and treble (top 30%) energies
WaveKnotOrganic_Averages(freq) ==
    LET bassEnd == (Len(freq) * 15) \div 100
        trebleStart == (Len(freq) * 7) \div 10
    IN  <<RangeAverage(0, bassEnd, BandEnergy(freq, 0, bassEnd)),
          RangeAverage(trebleStart, Len(freq), BandEnergy(freq, trebleStart, Len(freq)))>>

\* Kaleidoscope's bass energy (bottom 15%)
Kaleidoscope_Averages(freq) ==
    LET bassEnd == (Len(freq) * 15) \div 100
    IN  <<RangeAverage(0, bassEnd, BandEnergy(freq, 0, bassEnd))>>

\* MorphingContours' bass (0-20%), mid (20-60%) and high (60-100%) energies
MorphingContours_Averages(freq) ==
    LET bassEnd == (Len(freq) * 2) \div 10
        midEnd == (Len(freq) * 6) \div 10
    IN  <<RangeAverage(0, bassEnd, BandEnergy(freq, 0, bassEnd)),
          RangeAverage(bassEnd, midEnd, BandEnergy(freq, bassEnd, midEnd)),
          RangeAverage(midEnd, Len(freq), BandEnergy(freq, midEnd, Len(freq)))>>

AveragingSites ==
    {"AudioAnalyserProvider", "WaveKnot", "WaveKnotOrganic", "Kaleidoscope",
     "MorphingContours"}

Averages(site, freq) ==
    IF site = "AudioAnalyserProvider" THEN Extractor_Averages(freq)
    ELSE IF site = "WaveKnot" THEN WaveKnot_Averages(freq)
    ELSE IF site = "WaveKnotOrganic" THEN WaveKnotOrganic_Averages(freq)
    ELSE IF site = "Kaleidoscope" THEN Kaleidoscope_Averages(freq)
    ELSE MorphingContours_Averages(freq)

----------------------------------------------------------------------------
(* Specification *)

Components ==
    {"AudioAnalyserProvider", "WaveKnot", "WaveKnotFat", "WaveKnotFatParam",
     "WaveKnotOrganic", "Bars3DRadiate", "TunnelRipple"}

\* new Float32Array(n): all zeros
ZeroArray(n) == [i \in 1..n |-> 0]

InitRefs(c) ==
    IF c \in {"WaveKnotFat", "Bars3DRadiate"} THEN [prevRms |-> 0]
    ELSE IF c = "WaveKnotFatParam" THEN [prevRms |-> 0, rippleStartPos |-> 0]
    ELSE IF c = "WaveKnotOrganic"
    THEN [uTime |-> 0, smoothedBass |-> 0, smoothedTreble |-> 0, lastBassTime |-> 0,
          lastTrebleTime |-> 0]
    ELSE IF c = "TunnelRipple"
    THEN [prevRms |-> 0, currentHue |-> 0, lastBeatTime |-> 0, beatHistory |-> <<>>,
          now |-> FirstFrameTime]
    ELSE IF c = "WaveKnot" THEN [prevBands |-> ZeroArray(NUM_BANDS)]
    ELSE <<>>

\* the uniforms as each preset constructs them
InitUniforms(c) ==
    IF c = "WaveKnotFat"
    THEN [uPulsePos |-> ZeroArray(WaveKnotFat_MAX_PULSES),
          uPulseAmp |-> ZeroArray(WaveKnotFat_MAX_PULSES), uPulseCount |-> 0]
    ELSE IF c = "WaveKnotFatParam"
    THEN [uPulsePos |-> ZeroArray(WaveKnotFatParam_MAX_PULSES),
          uPulseAmp |-> ZeroArray(WaveKnotFatParam_MAX_PULSES), uPulseCount |-> 0]
    ELSE IF c = "WaveKnotOrganic"
    THEN [uPulsePos |-> ZeroArray(WaveKnotOrganic_MAX_PULSES),
          uPulseAmp |-> ZeroArray(WaveKnotOrganic_MAX_PULSES),
          uPulseWidth |-> ZeroArray(WaveKnotOrganic_MAX_PULSES),
          uPulseHue |-> ZeroArray(WaveKnotOrganic_MAX_PULSES), uPulseCount |-> 0]
    ELSE IF c = "WaveKnot"
    THEN [uPulsePos |-> ZeroArray(WaveKnot_MAX_PULSES),
          uPulseAmp |-> ZeroArray(WaveKnot_MAX_PULSES),
          uPulseWidth |-> ZeroArray(WaveKnot_MAX_PULSES),
          uPulseColR |-> ZeroArray(WaveKnot_MAX_PULSES),
          uPulseColG |-> ZeroArray(WaveKnot_MAX_PULSES),
          uPulseColB |-> ZeroArray(WaveKnot_MAX_PULSES), uPulseCount |-> 0]
    ELSE IF c = "TunnelRipple"
    THEN [uRipplePositions |-> ZeroArray(MAX_RIPPLES),
          uRippleAmplitudes |-> ZeroArray(MAX_RIPPLES),
          uRippleHues |-> ZeroArray(MAX_RIPPLES), uRippleCount |-> 0]
    ELSE <<>>

Init ==
    /\ component \in Components
    /\ audioElement = NULL
    /\ effect = [deps |-> NULL, cleanup |-> 0]
    /\ pipelines = <<>>
    /\ rms = 0
    /\ frequency = Silence
    /\ waveform = Silence
    /\ buffers = [frequency |-> 1, waveform |-> 2]
    /\ beatRef = [isOnset |-> FALSE, confidence |-> 0]
    /\ bandsRef = [lowAvg |-> 0, midAvg |-> 0, highAvg |-> 0,
                   onsets |-> [kick |-> FALSE, snare |-> FALSE, hat |-> FALSE]]
    /\ error = "none"
    /\ pulses = <<>>
    /\ uniforms = InitUniforms(component)
    /\ refs = InitRefs(component)
    /\ frames = 0
    /\ quiet = TRUE
    /\ input = [data |-> <<>>, prevRms |-> 0]
    /\ last = [op |-> "init", arg |-> NULL, was |-> NULL]

Next ==
    \/ \E el \in Elements \cup {NULL} : SetAudioElement(el)
    \/ \E meydaOk \in BOOLEAN, throws \in BOOLEAN : CommitEffect(meydaOk, throws)
    \/ \E i \in 1..MaxAttach, read \in TickReads : Tick(i, read.frequency, read.waveform)
    \/ \E i \in 1..MaxAttach, f \in MeydaFeatures : MeydaCallback(i, f)
    \/ \E delta \in Deltas(WaveKnotFat_HalfLife, 5), r \in PresetRms, o \in BOOLEAN :
          WaveKnotFat_useFrame(delta, [rms |-> r, beat |-> [isOnset |-> o]])
    \/ \E delta \in WaveKnotFatParam_Deltas, r \in PresetRms, o \in BOOLEAN :
          WaveKnotFatParam_useFrame(delta, [rms |-> r, beat |-> [isOnset |-> o]])
    \/ \E delta \in WaveKnotOrganic_Deltas, f \in PresetSpectra :
          WaveKnotOrganic_useFrame(delta, [frequency |-> f])
    \/ \E delta \in Deltas(WaveKnot_HalfLife, 5), f \in PresetSpectra :
          WaveKnot_useFrame(delta, [frequency |-> f])
    \/ \E delta \in Deltas(Bars3DRadiate_RIPPLE_DECAY, 1), f \in CentroidSpectra,
             r \in Bars3DRadiate_Rms, o \in BOOLEAN :
          Bars3DRadiate_useFrame(delta, [frequency |-> f, rms |-> r,
                                         beat |-> [isOnset |-> o]])
    \/ \E delta \in Deltas(TunnelRipple_FrameUnit, 5), f \in TunnelSpectra,
             r \in TunnelRms, o \in BOOLEAN :
          TunnelRipple_useFrame(delta, [frequency |-> f, rms |-> r,
                                        beat |-> [isOnset |-> o]])

Spec == Init /\ [][Next]_vars

----------------------------------------------------------------------------
(* Claims about AudioAnalyserProvider *)

\* C2 (as the specification states it): after every tick, beat.isOnset is true exactly
\* when the mean of the frequency buffer is above 140 and the rms most recently
\* reported by the Meyda callback (the rms state) is above 0.08.
C2_OnsetUsesCurrentRms ==
    last.op = "tick" =>
        (beatRef.isOnset <=> (SumSeq(frequency) > 140 * Len(frequency) /\ rms > Fix(8, 100)))

\* C8 (as the specification states it): setting a source while a different one is
\* attached fails with AttachmentError and leaves the attached element in place.
C8_AttachFails ==
    (last.op = "setAudioElement" /\ last.was # NULL /\ last.arg \notin {NULL, last.was})
        => (error = "AttachmentError" /\ audioElement = last.was)

\* C8 (amended): no AttachmentError exists.  Setting a source while a different one is
\* attached raises nothing and replaces the element; at the effect commit that follows,
\* the previous pipeline is torn down and, unless the platform refuses the source node,
\* the only live pipeline is a new one built for the new element.
C8_AttachReplaces ==
    /\ error # "AttachmentError"
    /\ last.op = "setAudioElement" => (audioElement = last.arg /\ error = "none")
    /\ (last.op = "commitEffect" /\ last.was # NULL /\ last.arg \notin {NULL, last.was})
          => /\ \A i \in 1..Len(pipelines) :
                   pipelines[i].element = last.was =>
                       (~pipelines[i].raf /\ ~pipelines[i].connected
                          /\ pipelines[i].teardowns = 1)
             /\ error = "none" =>
                   (Live = {Len(pipelines)}
                      /\ pipelines[Len(pipelines)].element = last.arg)

\* C8 witness: audioB was set while audioA was attached, and the commit replaced
\* audioA's pipeline by one for audioB.
C8_Witness ==
    /\ last.op = "commitEffect" /\ last.was = "audioA" /\ last.arg = "audioB"
    /\ error = "none"
    /\ Len(pipelines) = 2
    /\ pipelines[1].element = "audioA" /\ pipelines[1].teardowns = 1
    /\ pipelines[2].element = "audioB" /\ pipelines[2].raf

\* C9: at every moment at most one pipeline is live, and it is the one whose cleanup
\* the effect holds for the current element; every other pipeline has its tick loop
\* cancelled, Meyda stopped and its nodes released.
C9_OnePipeline ==
    /\ Cardinality(Live) <= 1
    /\ \A i \in 1..Len(pipelines) :
          (pipelines[i].raf \/ pipelines[i].connected \/ pipelines[i].meyda)
              => (effect.cleanup = i /\ pipelines[i].element = effect.deps
                    /\ i = Len(pipelines))

\* C9 witness: the element changed; the first pipeline is released and the second runs.
C9_Witness ==
    /\ Len(pipelines) = 2
    /\ ~pipelines[1].raf /\ ~pipelines[1].connected
    /\ pipelines[2].raf /\ pipelines[2].connected
    /\ pipelines[1].element # pipelines[2].element

\* C10: detach is idempotent.  Clearing the element when none is set changes nothing of
\* the provider's state and makes no effect run; a commit for a cleared element raises
\* no error; and no pipeline is ever torn down twice.
C10_DetachIdempotent ==
    /\ [](\A i \in 1..Len(pipelines) : pipelines[i].teardowns <= 1)
    /\ [][(last'.op = "setAudioElement" /\ last'.arg = NULL /\ audioElement = NULL)
             => (providerVars' = providerVars
                   /\ ((audioElement = effect.deps) => (audioElement' = effect'.deps)))]_vars
    /\ [][(last'.op = "commitEffect" /\ last'.arg = NULL)
             => (error' = "none" /\ Live' = {} /\ effect'.cleanup = 0)]_vars

\* C10 witness: an element was attached and detached (its pipeline torn down once), and
\* the element was then cleared a second time.
C10_Witness ==
    /\ last.op = "setAudioElement" /\ last.arg = NULL /\ last.was = NULL
    /\ effect.deps = NULL
    /\ Len(pipelines) = 1 /\ pipelines[1].teardowns = 1
    /\ error = "none"

C16_ConfidenceClamped ==
    /\ beatRef.confidence >= 0 /\ beatRef.confidence <= ONE
    /\ last.op = "tick" =>
          LET sum == SumSeq(frequency)
              n == Len(frequency)
          IN  /\ beatRef.confidence = Min(ONE, Max(0, MulDiv(ONE, sum - 100 * n, 155 * n)))
              /\ sum <= 100 * n => beatRef.confidence = 0
              /\ sum = 255 * n => beatRef.confidence = ONE
              /\ (sum > 100 * n /\ sum < 255 * n) =>
                    (beatRef.confidence > 0 /\ beatRef.confidence < ONE)

\* C16 witness: a tick filled the buffer with a mean of exactly 100, the largest mean
\* with confidence 0.
C16_Witness ==
    /\ last.op = "tick"
    /\ \A i \in 1..Len(frequency) : frequency[i] = 100
    /\ beatRef.confidence = 0

\* the three index ranges (1-based) the band averages are taken over
BandBins ==
    LET third == BinCount \div 3
    IN  [low |-> 1..third, mid |-> (third + 1)..(2 * third), high |-> (2 * third + 1)..BinCount]

\* the average of the bins of a non-empty range, as a fraction of 255
RECURSIVE BinSum(_, _)
BinSum(freq, bins) ==
    IF bins = {} THEN 0
    ELSE LET i == CHOOSE j \in bins : TRUE IN freq[i] + BinSum(freq, bins \ {i})

BinAverage(freq, bins) == MulDiv(ONE, BinSum(freq, bins), Cardinality(bins) * 255)

\* C19: after a Meyda callback lowAvg, midAvg and highAvg are the averages of the spectrum
\* it read over three ranges of consecutive bins, every bin lying in exactly one of them;
\* and at all times each average is in [0,1] and kick / snare / hat are true exactly when
\* lowAvg > 0.35 / midAvg > 0.30 / highAvg > 0.28.
C19_BandsPartition ==
    /\ (component = "AudioAnalyserProvider" /\ last.op = "meydaCallback") =>
        LET freq == input.data.freq IN
        /\ \A i \in 1..Len(freq) :
               Cardinality({r \in {"low", "mid", "high"} : i \in BandBins[r]}) = 1
        /\ BandBins.low \cup BandBins.mid \cup BandBins.high = 1..Len(freq)
        /\ bandsRef.lowAvg = BinAverage(freq, BandBins.low)
        /\ bandsRef.midAvg = BinAverage(freq, BandBins.mid)
        /\ bandsRef.highAvg = BinAverage(freq, BandBins.high)
    /\ \A a \in {bandsRef.lowAvg, bandsRef.midAvg, bandsRef.highAvg} : 0 <= a /\ a <= ONE
    /\ bandsRef.onsets.kick <=> bandsRef.lowAvg > Fix(35, 100)
    /\ bandsRef.onsets.snare <=> bandsRef.midAvg > Fix(3, 10)
    /\ bandsRef.onsets.hat <=> bandsRef.highAvg > Fix(28, 100)

\* a callback that read a spectrum just above the three thresholds: all flags are set;
\* the averages are those of 90, 77 and 72
C19_Witness ==
    /\ component = "AudioAnalyserProvider"
    /\ last.op = "meydaCallback"
    /\ input.data.freq = ThirdsSpectrum(90, 77, 72)
    /\ bandsRef.onsets = [kick |-> TRUE, snare |-> TRUE, hat |-> TRUE]
    /\ bandsRef.lowAvg = Fix(90, 255)

\* C20: whatever ticks, attaches and detaches have happened, the snapshot's frequency and
\* waveform are the two arrays allocated at construction (never another array), each
\* holds exactly BinCount entries (1024 in the source), and every entry is in 0..255.
C20_SameBuffers ==
    /\ buffers = [frequency |-> 1, waveform |-> 2]
    /\ Len(Snapshot.frequency) = BinCount /\ Len(Snapshot.waveform) = BinCount
    /\ \A k \in 1..BinCount :
           Snapshot.frequency[k] \in 0..255 /\ Snapshot.waveform[k] \in 0..255

\* a tick of the second pipeline (after a detach and a new attach) has overwritten both
\* buffers with sound
C20_Witness ==
    /\ component = "AudioAnalyserProvider"
    /\ last.op = "tick" /\ last.arg = 2
    /\ \E k \in 1..BinCount : frequency[k] = 255
    /\ \E k \in 1..BinCount : waveform[k] = 255
    /\ buffers.frequency = 1 /\ buffers.waveform = 2

----------------------------------------------------------------------------
(* Claims about the presets *)

Presets == Components \ {"AudioAnalyserProvider"}

\* the presets that pack their list into uniform arrays
PackingPresets == Presets \ {"Bars3DRadiate"}

\* the capacity each preset declares
Capacity(c) ==
    CASE c = "WaveKnot" -> WaveKnot_MAX_PULSES
      [] c = "WaveKnotFat" -> WaveKnotFat_MAX_PULSES
      [] c = "WaveKnotFatParam" -> WaveKnotFatParam_MAX_PULSES
      [] c = "WaveKnotOrganic" -> WaveKnotOrganic_MAX_PULSES
      [] c = "Bars3DRadiate" -> Bars3DRadiate_MAX_PULSES
      [] c = "TunnelRipple" -> MAX_RIPPLES

\* the amplitude of a pulse or ripple
AmpOf(p) == IF "amplitude" \in DOMAIN p THEN p.amplitude ELSE p.amp

\* the frame deltas of each preset, and its advance step
FrameDeltas(c) ==
    CASE c = "WaveKnot" -> Deltas(WaveKnot_HalfLife, 5)
      [] c = "WaveKnotFat" -> Deltas(WaveKnotFat_HalfLife, 5)
      [] c = "WaveKnotFatParam" -> WaveKnotFatParam_Deltas
      [] c = "WaveKnotOrganic" -> WaveKnotOrganic_Deltas
      [] c = "Bars3DRadiate" -> Deltas(Bars3DRadiate_RIPPLE_DECAY, 1)
      [] c = "TunnelRipple" -> Deltas(TunnelRipple_FrameUnit, 5)

AdvanceOf(c, list, delta) ==
    CASE c = "WaveKnot" -> WaveKnot_Advance(list, delta)
      [] c = "WaveKnotFat" -> WaveKnotFat_Advance(list, delta)
      [] c = "WaveKnotFatParam" -> WaveKnotFatParam_Advance(list, delta)
      [] c = "WaveKnotOrganic" -> WaveKnotOrganic_Advance(list, delta)
      [] c = "Bars3DRadiate" -> Bars3DRadiate_Advance(list, delta)
      [] c = "TunnelRipple" -> TunnelRipple_Advance(list, delta)

\* C1 (as the specification states it): in every preset the live list never holds more
\* than MAX_PULSES (MAX_RIPPLES) entries.
C1_ListBounded ==
    component \in Presets => Len(pulses) <= Capacity(component)

\* C3: at the end of every frame every pulse has 0 <= amplitude <= its amplitude at
\* spawn, and the advance step of any further frame (delta >= 0) does not raise it.
C3_AmplitudeDecays ==
    component \in Presets =>
        /\ \A i \in 1..Len(pulses) :
              0 <= AmpOf(pulses[i]) /\ AmpOf(pulses[i]) <= pulses[i].amp0
        /\ \A delta \in FrameDeltas(component) :
              LET moved == AdvanceOf(component, pulses, delta)
              IN  \A i \in 1..Len(pulses) :
                     0 <= AmpOf(moved[i]) /\ AmpOf(moved[i]) <= AmpOf(pulses[i])

\* C3 witness: a frame with delta > 0 has run and left a pulse below its spawn amplitude.
C3_Witness ==
    /\ component \in Presets
    /\ last.op = "useFrame" /\ last.delta > 0
    /\ \E i \in 1..Len(pulses) :
          0 < AmpOf(pulses[i]) /\ AmpOf(pulses[i]) < pulses[i].amp0

\* how many pulses of list have amplitude a
AmpCount(list, a) == Cardinality({ i \in 1..Len(list) : AmpOf(list[i]) = a })

\* an eviction kept the max strongest: the retained pulses are max pulses of the list
\* before, and none that was removed is stronger than one that was kept
KeepsStrongest(e, max) ==
    /\ Len(e.after) = max
    /\ \A i \in 1..Len(e.after) :
          AmpCount(e.after, AmpOf(e.after[i])) <= AmpCount(e.before, AmpOf(e.after[i]))
    /\ \A j \in 1..Len(e.before), i \in 1..Len(e.after) :
          AmpCount(e.before, AmpOf(e.before[j])) > AmpCount(e.after, AmpOf(e.before[j]))
              => AmpOf(e.after[i]) >= AmpOf(e.before[j])

\* an eviction kept the max newest: the head of the list, new pulses being unshifted
KeepsNewest(e, max) == e.after = Slice0(e.before, max)

\* C4 (as the specification states it): in WaveKnotOrganic, WaveKnotFat, Bars3DRadiate
\* and TunnelRipple every overflow removes the lowest-amplitude pulses, so that the
\* retained pulses are the MAX_PULSES strongest.
C4_EvictsWeakest ==
    (component \in {"WaveKnotOrganic", "WaveKnotFat", "Bars3DRadiate", "TunnelRipple"}
        /\ last.op = "useFrame")
        => \A k \in 1..Len(last.evictions) :
              KeepsStrongest(last.evictions[k], Capacity(component))

\* C4 (amended): WaveKnotOrganic keeps the MAX_PULSES strongest.  WaveKnotFat and
\* WaveKnotFatParam pop the oldest pulse, which is never stronger than a kept one.
\* Bars3DRadiate and TunnelRipple drop the oldest pulses and keep the newest, whatever
\* their amplitudes.
C4_EvictionPolicy ==
    (component \in Presets /\ last.op = "useFrame") =>
        \A k \in 1..Len(last.evictions) :
            LET e == last.evictions[k]
                max == Capacity(component)
            IN  /\ component = "WaveKnotOrganic" => KeepsStrongest(e, max)
                /\ component \in {"WaveKnotFat", "WaveKnotFatParam"}
                      => (KeepsNewest(e, max) /\ KeepsStrongest(e, max))
                /\ component \in {"Bars3DRadiate", "TunnelRipple"} => KeepsNewest(e, max)

\* C4 witness: a Bars3DRadiate overflow removed a pulse stronger than one it kept.
C4_Witness ==
    /\ component = "Bars3DRadiate" /\ last.op = "useFrame"
    /\ \E k \in 1..Len(last.evictions) :
          /\ KeepsNewest(last.evictions[k], Bars3DRadiate_MAX_PULSES)
          /\ ~KeepsStrongest(last.evictions[k], Bars3DRadiate_MAX_PULSES)

\* the packed arrays of a preset, and its count
CountOf(u) == IF "uRippleCount" \in DOMAIN u THEN u.uRippleCount ELSE u.uPulseCount
ArraysOf(u) == DOMAIN u \ {"uPulseCount", "uRippleCount"}

\* C5 (as the specification states it): after the pack step of every frame every slot
\* from count on, of every packed array, holds 0, and count is the number of pulses
\* written.
C5_ZeroBeyondCount ==
    (component \in PackingPresets /\ last.op = "useFrame") =>
        /\ CountOf(uniforms) = Min(Capacity(component), Len(pulses))
        /\ \A name \in ArraysOf(uniforms) :
              \A i \in (CountOf(uniforms) + 1)..Capacity(component) :
                  uniforms[name][i] = 0

\* the value the width array is filled with before the pulses are written
WidthFill(c) == IF c = "WaveKnot" THEN Fix(5, 1000) ELSE Fix(1, 100)

\* C5 (amended): after the pack step every slot from count on holds 0 in the position,
\* amplitude, hue and colour arrays, and holds the preset's default width (0.005 in
\* WaveKnot, 0.01 in WaveKnotOrganic, as float32) in the width array; count is the
\* number of pulses written, min(MAX_PULSES, length of the list).
C5_FillBeyondCount ==
    (component \in PackingPresets /\ last.op = "useFrame") =>
        /\ CountOf(uniforms) = Min(Capacity(component), Len(pulses))
        /\ \A name \in ArraysOf(uniforms) :
              /\ Len(uniforms[name]) = Capacity(component)
              /\ \A i \in (CountOf(uniforms) + 1)..Capacity(component) :
                    uniforms[name][i] =
                        IF name = "uPulseWidth" THEN fround(WidthFill(component)) ELSE 0

\* C5 witness: a WaveKnotOrganic frame packed fewer pulses than the capacity (and at
\* least one); the free width slot holds the default width, the free amplitude slot 0.
C5_Witness ==
    /\ component = "WaveKnotOrganic" /\ last.op = "useFrame"
    /\ uniforms.uPulseCount >= 1
    /\ uniforms.uPulseCount < WaveKnotOrganic_MAX_PULSES
    /\ uniforms.uPulseWidth[WaveKnotOrganic_MAX_PULSES] # 0
    /\ uniforms.uPulseAmp[WaveKnotOrganic_MAX_PULSES] = 0

\* what slot i of array name holds if the pack were an exact copy of pulse p
ExactField(name, p) ==
    CASE name \in {"uPulsePos"} -> p.pos
      [] name = "uPulseAmp" -> p.amp
      [] name = "uPulseWidth" -> p.width
      [] name = "uPulseHue" -> p.hue
      [] name = "uPulseColR" -> p.color.r
      [] name = "uPulseColG" -> p.color.g
      [] name = "uPulseColB" -> p.color.b
      [] name = "uRipplePositions" -> p.position
      [] name = "uRippleAmplitudes" -> p.amplitude
      [] name = "uRippleHues" -> p.hue

\* C6 (as the specification states it): after a pack, slot i < count of each packed
\* array holds exactly the corresponding field of the i-th live pulse.
C6_ExactRoundTrip ==
    (component \in PackingPresets /\ last.op = "useFrame") =>
        \A name \in ArraysOf(uniforms) :
            \A i \in 1..CountOf(uniforms) :
                uniforms[name][i] = ExactField(name, pulses[i])

\* what the pack writes for pulse p into array name
WrittenField(c, name, p) ==
    IF c = "WaveKnotFatParam" /\ name = "uPulsePos"
    THEN fround((p.pos + refs.rippleStartPos) % ONE)
    ELSE fround(ExactField(name, p))

\* C6 (amended): after a pack, slot i < count of each array the preset packs holds the
\* float32 rounding of the corresponding field of the i-th live pulse; in
\* WaveKnotFatParam the position slot holds the rounding of
\* (pos + rippleStartPos) mod 1.  The arrays are position and amplitude everywhere, plus
\* width and hue in WaveKnotOrganic, width and colour r, g, b in WaveKnot, hue in
\* TunnelRipple.
C6_RoundedRoundTrip ==
    (component \in PackingPresets /\ last.op = "useFrame") =>
        /\ ArraysOf(uniforms) =
              CASE component = "WaveKnot" ->
                      {"uPulsePos", "uPulseAmp", "uPulseWidth", "uPulseColR", "uPulseColG",
                       "uPulseColB"}
                [] component = "WaveKnotOrganic" ->
                      {"uPulsePos", "uPulseAmp", "uPulseWidth", "uPulseHue"}
                [] component = "TunnelRipple" ->
                      {"uRipplePositions", "uRippleAmplitudes", "uRippleHues"}
                [] OTHER -> {"uPulsePos", "uPulseAmp"}
        /\ \A name \in ArraysOf(uniforms) :
              \A i \in 1..CountOf(uniforms) :
                  uniforms[name][i] = WrittenField(component, name, pulses[i])

\* C6 witness: WaveKnotFatParam packed a pulse whose position slot differs from the
\* pulse's position, the start offset being non-zero.
C6_Witness ==
    /\ component = "WaveKnotFatParam" /\ last.op = "useFrame"
    /\ uniforms.uPulseCount >= 1
    /\ refs.rippleStartPos # 0
    /\ uniforms.uPulsePos[1] # pulses[1].pos
    /\ uniforms.uPulseAmp[1] = pulses[1].amp

\* C7: a frame with delta = 0 in which nothing is spawned leaves the live list as it
\* was: same pulses, same fields, same order.
C7_ZeroDeltaIdentity ==
    [][(component \in Presets /\ last'.op = "useFrame" /\ last'.delta = 0
          /\ last'.spawned = 0) => pulses' = pulses]_vars

\* C7 witness: a frame with delta = 0 and no spawn has run on a non-empty list.
C7_Witness ==
    /\ component \in Presets
    /\ last.op = "useFrame" /\ last.delta = 0 /\ last.spawned = 0
    /\ Len(pulses) >= 1

\* C12: with no source attached (every frame so far read an all-zero frequency buffer,
\* rms 0 and isOnset false) no pulse survives a frame and the packed count is 0, after
\* any number of frames.
C12_NoSourceNoPulses ==
    (component \in Presets /\ quiet) =>
        /\ pulses = <<>>
        /\ component \in PackingPresets =>
              (CountOf(uniforms) = 0
                 /\ \A name \in {"uPulseAmp", "uRippleAmplitudes"} \cap DOMAIN uniforms :
                       \A i \in 1..Len(uniforms[name]) : uniforms[name][i] = 0)

\* C12 witness: WaveKnot ran every frame of the behaviour without a source; each frame
\* pushed its band pulses, of amplitude 0, and removed them again.
C12_Witness ==
    /\ component = "WaveKnot"
    /\ quiet
    /\ frames = MaxFrames
    /\ last.op = "useFrame" /\ last.spawned = 0
    /\ Len(BandPulses(Silence, 0)) = NUM_BANDS
    /\ \A i \in 1..NUM_BANDS : BandPulses(Silence, 0)[i].amp = 0

\* the presets with the RMS spike fallback of factor 1.22 and floor 0.04
SpikePresets == {"WaveKnotFat", "WaveKnotFatParam", "Bars3DRadiate"}

\* C14: in WaveKnotFat, WaveKnotFatParam and Bars3DRadiate a frame whose isOnset is
\* false spawns exactly when rms > prev * 1.22 and rms > 0.04 (a frame whose isOnset is
\* true always spawns), prev being the rms of the frame before (0 before the first);
\* and every frame, spawning or not, leaves prev equal to its own rms.
C14_SpikeFallback ==
    /\ []((component \in SpikePresets /\ last.op = "useFrame") =>
            /\ refs.prevRms = input.data.rms
            /\ (last.spawned > 0) <=>
                  \/ input.data.beat.isOnset
                  \/ /\ 100 * input.data.rms > 122 * input.prevRms
                     /\ 100 * input.data.rms > 4 * ONE)
    /\ [][(component \in SpikePresets /\ last'.op = "useFrame")
             => input'.prevRms = (IF last.op = "useFrame" THEN input.data.rms ELSE 0)]_vars

\* C14 witness: the example of the specification: prev = 0.05, rms = 0.07, isOnset
\* false, and a pulse was spawned.
C14_Witness ==
    /\ component = "WaveKnotFat"
    /\ last.op = "useFrame"
    /\ input.prevRms = Fix(5, 100) /\ input.data.rms = Fix(7, 100)
    /\ ~input.data.beat.isOnset
    /\ last.spawned = 1

\* C17: in WaveKnotOrganic a frame spawns a bass pulse only when more than 0.05 s of engine
\* time (uTime) has passed since the previous bass spawn, and a treble pulse only when more
\* than 0.03 s has passed since the previous treble spawn; each timer is restarted by a
\* spawn of its own band and by nothing else, so the pulses a frame spawns are exactly the
\* bands whose timer it restarted.
C17_IndependentCooldowns ==
    [][(component = "WaveKnotOrganic" /\ last'.op = "useFrame" /\ frames' = frames + 1) =>
        LET bass == refs'.lastBassTime # refs.lastBassTime
            treble == refs'.lastTrebleTime # refs.lastTrebleTime
        IN  /\ bass => /\ refs'.lastBassTime = refs'.uTime
                       /\ refs'.uTime - refs.lastBassTime > Fix(5, 100)
            /\ treble => /\ refs'.lastTrebleTime = refs'.uTime
                         /\ refs'.uTime - refs.lastTrebleTime > Fix(3, 100)
            /\ last'.spawned = (IF bass THEN 1 ELSE 0) + (IF treble THEN 1 ELSE 0)]_vars

\* a full spectrum 0.04 s after both bands spawned: the treble band spawns again, the
\* bass band is still cooling down and its timer keeps the earlier time
C17_Witness ==
    /\ component = "WaveKnotOrganic"
    /\ last.op = "useFrame" /\ last.delta = ShortFrame
    /\ \A i \in 1..BinCount : input.data.frequency[i] = 255
    /\ last.spawned = 1
    /\ refs.lastTrebleTime = refs.uTime
    /\ refs.lastBassTime = refs.uTime - ShortFrame
    /\ refs.lastBassTime > Fix(5, 100)

\* the width WaveKnot gives the pulses of band b (1-based), which tells the bands apart
BandWidth(b) == BandPulse(Silence, b - 1).width

\* the pulses of band b in a list
OfBand(list, b) == SelectSeq(list, LAMBDA p : p.width = BandWidth(b))

\* C18: in WaveKnot a frame leaves a new pulse of a band in the list only when that
\* band's energy rose above its energy of the frame before (a spike), and not when the
\* list already holds a pulse of the same band that was spawned no time ago (still at
\* position 0 with its spawn amplitude): no band spawns twice within any window.
C18_BandDebounce ==
    [][(component = "WaveKnot" /\ last'.op = "useFrame" /\ frames' = frames + 1) =>
        \A b \in 1..NUM_BANDS :
            Len(OfBand(pulses', b)) > Len(OfBand(pulses, b)) =>
                /\ refs'.prevBands[b] > refs.prevBands[b]
                /\ \A k \in DOMAIN pulses :
                       ~(pulses[k].width = BandWidth(b) /\ pulses[k].pos = 0
                            /\ pulses[k].amp = pulses[k].amp0)]_vars

\* the largest amplitude a pulse of the preset can be spawned with
SpawnMax(c, p) ==
    CASE c = "WaveKnot" -> IF p.width = Fix(8, 1000) THEN Fix(25, 100) ELSE Fix(4, 10)
      [] c = "WaveKnotOrganic" -> IF p.hue = BASS_COLOR_HUE THEN ONE ELSE Fix(8, 10)
      [] c \in {"WaveKnotFat", "WaveKnotFatParam"} -> ONE
      [] c = "TunnelRipple" -> Fix(15, 10)

\* C21: in WaveKnot, WaveKnotOrganic, WaveKnotFat, WaveKnotFatParam and TunnelRipple every
\* pulse was constructed at position 0 and with an amplitude between 0 and its preset's
\* spawn maximum (0.4 / 0.25, 1.0 / 0.8, 1, 1, 1.5).
C21_SpawnBounds ==
    component \in Presets \ {"Bars3DRadiate"} =>
        \A i \in 1..Len(pulses) :
            /\ pulses[i].pos0 = 0
            /\ 0 <= pulses[i].amp0 /\ pulses[i].amp0 <= SpawnMax(component, pulses[i])

\* TunnelRipple's energy rule with a full spectrum spawns a ripple at the maximum, 1.5
C21_Witness ==
    /\ component = "TunnelRipple"
    /\ last.op = "useFrame" /\ last.spawned = 1
    /\ pulses[1].position = 0 /\ pulses[1].pos0 = 0
    /\ pulses[1].amplitude = Fix(15, 10) /\ pulses[1].amp0 = Fix(15, 10)

\* the position of a pulse or ripple (the radius in Bars3DRadiate)
PosOf(p) ==
    IF "position" \in DOMAIN p THEN p.position
    ELSE IF "radius" \in DOMAIN p THEN p.radius ELSE p.pos

\* C22 (as the specification states it): at the end of every frame each live pulse has
\* an amplitude above the prune epsilon of its preset (WaveKnotFat 0.02,
\* WaveKnotOrganic 0.01, WaveKnot 0.008, TunnelRipple 0.01) and a position inside the
\* travel range: in [0, 1) for the wrapping presets (WaveKnotFat, WaveKnotFatParam and
\* the offset position it packs, WaveKnotOrganic), at most 1 for the one-shot presets
\* (WaveKnot, TunnelRipple).
C22_LivePulses ==
    (component \in PackingPresets /\ last.op = "useFrame") =>
        /\ \A i \in 1..Len(pulses) :
              /\ component = "WaveKnotFat" => AmpOf(pulses[i]) > Fix(2, 100)
              /\ component = "WaveKnotOrganic" => AmpOf(pulses[i]) > Fix(1, 100)
              /\ component = "WaveKnot" => AmpOf(pulses[i]) > Fix(8, 1000)
              /\ component = "TunnelRipple" => AmpOf(pulses[i]) > Fix(1, 100)
              /\ IF component \in {"WaveKnot", "TunnelRipple"}
                 THEN PosOf(pulses[i]) <= ONE
                 ELSE 0 <= PosOf(pulses[i]) /\ PosOf(pulses[i]) < ONE
        /\ component = "WaveKnotFatParam" =>
              \A i \in 1..uniforms.uPulseCount :
                  0 <= uniforms.uPulsePos[i] /\ uniforms.uPulsePos[i] < ONE

\* C22 (amended): as above for the live list, with WaveKnotFatParam pruning at
\* PULSE_MIN_AMP; the offset position WaveKnotFatParam packs is the float32 rounding
\* of a number in [0, 1) and lies in [0, 1], the bound 1 included.
C22_LivePulsesRounded ==
    (component \in PackingPresets /\ last.op = "useFrame") =>
        /\ \A i \in 1..Len(pulses) :
              /\ component = "WaveKnotFat" => AmpOf(pulses[i]) > Fix(2, 100)
              /\ component = "WaveKnotFatParam" => AmpOf(pulses[i]) > PULSE_MIN_AMP
              /\ component = "WaveKnotOrganic" => AmpOf(pulses[i]) > Fix(1, 100)
              /\ component = "WaveKnot" => AmpOf(pulses[i]) > Fix(8, 1000)
              /\ component = "TunnelRipple" => AmpOf(pulses[i]) > Fix(1, 100)
              /\ IF component \in {"WaveKnot", "TunnelRipple"}
                 THEN PosOf(pulses[i]) <= ONE
                 ELSE 0 <= PosOf(pulses[i]) /\ PosOf(pulses[i]) < ONE
        /\ component = "WaveKnotFatParam" =>
              \A i \in 1..uniforms.uPulseCount :
                  0 <= uniforms.uPulsePos[i] /\ uniforms.uPulsePos[i] <= ONE

\* p has the position and the amplitude it was spawned with
AsSpawned(p) == PosOf(p) = p.pos0 /\ AmpOf(p) = p.amp0

\* C23: a pulse is not advanced or decayed in the frame that spawns it.  At the end of
\* a frame the pulses it spawned (the first ones of the list where the preset
\* unshifts, the last ones where it pushes, the pushed one wherever the sort of
\* WaveKnotOrganic left it) have position 0 and their spawn amplitude, in every preset,
\* Bars3DRadiate included; WaveKnotFat has then packed position 0 and amplitude 1 in
\* slot 0.
C23_SpawnFrameUntouched ==
    (component \in Presets /\ last.op = "useFrame" /\ last.spawned > 0) =>
        LET n == Len(pulses)
            k == Min(last.spawned, n)
        IN  /\ component \in {"WaveKnotFat", "WaveKnotFatParam", "TunnelRipple",
                                "Bars3DRadiate"} =>
                  \A i \in 1..k : AsSpawned(pulses[i]) /\ PosOf(pulses[i]) = 0
            /\ (component = "WaveKnot"
                    \/ (component = "WaveKnotOrganic" /\ last.evictions = <<>>)) =>
                  \A i \in (n - k + 1)..n : AsSpawned(pulses[i]) /\ PosOf(pulses[i]) = 0
            /\ (component = "WaveKnotOrganic" /\ last.evictions # <<>>) =>
                  \A e \in 1..Len(last.evictions) :
                      LET pushed == last.evictions[e].before[Len(last.evictions[e].before)]
                      IN  \A i \in 1..n :
                              (pulses[i].pos0 = 0 /\ pulses[i].amp0 = pushed.amp0
                                  /\ pulses[i].hue = pushed.hue /\ pulses[i].pos = 0)
                                  => AsSpawned(pulses[i])
            /\ component = "WaveKnotFat" =>
                  /\ uniforms.uPulseCount >= 1
                  /\ uniforms.uPulsePos[1] = 0 /\ uniforms.uPulseAmp[1] = ONE

\* what a pulse carries besides its position and amplitude: width or sigma, hue or
\* colour, decayRate, timestamp (and the record of its spawn)
Attributes(p) ==
    [f \in DOMAIN p \ {"pos", "position", "radius", "amp", "amplitude"} |-> p[f]]

\* p, found in the list at the end of a frame of length delta, can be a pulse that
\* frame spawned: it is as spawned, or in Bars3DRadiate advanced once from its spawn
SpawnedIn(c, p, delta) ==
    IF c = "Bars3DRadiate"
    THEN p = Bars3DRadiate_Advance(<<[p EXCEPT !.radius = p.pos0, !.amp = p.amp0]>>,
                                   delta)[1]
    ELSE AsSpawned(p)

\* C24: a frame changes nothing of a pulse but its position and amplitude.  Every
\* pulse in the list after a frame either is one the frame spawned or has the width
\* or sigma, hue or colour and decayRate of a pulse that was in the list before the
\* frame, also when WaveKnotOrganic re-sorted the list on overflow.
C24_AttributesKept ==
    [][(component \in Presets /\ last'.op = "useFrame") =>
          \A i \in 1..Len(pulses') :
              \/ \E j \in 1..Len(pulses) : Attributes(pulses'[i]) = Attributes(pulses[j])
              \/ last'.spawned > 0 /\ SpawnedIn(component, pulses'[i], last'.delta)]_vars

\* WaveKnotOrganic re-sorted the list on overflow in a frame that took time, and a
\* bass pulse spawned earlier is still in the list, advanced and decayed, with the
\* bass width, hue and decay time
C24_Witness ==
    /\ component = "WaveKnotOrganic"
    /\ last.op = "useFrame" /\ last.delta > 0 /\ last.evictions # <<>>
    /\ \E i \in 1..Len(pulses) :
          /\ pulses[i].pos > 0 /\ pulses[i].amp < pulses[i].amp0
          /\ pulses[i].width = BASS_PULSE_WIDTH /\ pulses[i].hue = BASS_COLOR_HUE
          /\ pulses[i].decayRate = BASS_DECAY_TIME

\* a long frame pruned every older pulse and spawned one; its offset position, one
\* float32 step short of 1 before the store, is packed as 1
C22_Witness ==
    /\ component = "WaveKnotFatParam"
    /\ last.op = "useFrame" /\ last.delta = WrapFrame /\ last.spawned = 1
    /\ Len(pulses) = 1 /\ pulses[1].pos = 0
    /\ refs.rippleStartPos < ONE
    /\ uniforms.uPulsePos[1] = ONE

\* C25: when WaveKnot holds more than MAX_PULSES live pulses, the pulses written to
\* the uniforms are the MAX_PULSES most recently spawned ones, which addPulse has
\* pushed to the end of the list.
C25_NewestPacked ==
    (component = "WaveKnot" /\ last.op = "useFrame"
        /\ Len(pulses) > WaveKnot_MAX_PULSES) =>
        LET first == Len(pulses) - WaveKnot_MAX_PULSES + 1
            Written(i) == [pos |-> uniforms.uPulsePos[i], amp |-> uniforms.uPulseAmp[i],
                           width |-> uniforms.uPulseWidth[i]]
            Rounded(p) == [pos |-> fround(p.pos), amp |-> fround(p.amp),
                           width |-> fround(p.width)]
        IN  /\ uniforms.uPulseCount = WaveKnot_MAX_PULSES
            /\ {Written(i) : i \in 1..WaveKnot_MAX_PULSES}
                   = {Rounded(pulses[j]) : j \in first..Len(pulses)}

\* C30: WaveKnotFat and WaveKnotFatParam keep the list newest first.  A frame puts at
\* most one pulse into the list, at its head with position 0 and amplitude 1; the
\* pulses behind it are the advanced pulses of the list before, in their order,
\* less some at its end; amplitudes do not increase along the list; the pulse pop()
\* drops on overflow is the last one, the oldest, and none has a lower amplitude.
C30_NewestFirst ==
    [][(component \in {"WaveKnotFat", "WaveKnotFatParam"} /\ last'.op = "useFrame") =>
          LET moved == AdvanceOf(component, pulses, last'.delta)
              old == IF last'.spawned = 1 /\ pulses' # <<>> THEN Tail(pulses') ELSE pulses'
          IN  /\ last'.spawned \in {0, 1}
              /\ Len(pulses') <= Len(pulses) + 1
              /\ last'.spawned = 1 =>
                    /\ pulses' # <<>>
                    /\ pulses'[1].pos = 0 /\ pulses'[1].amp = ONE
              /\ Len(old) <= Len(moved) /\ old = SubSeq(moved, 1, Len(old))
              /\ \A i \in 1..(Len(pulses') - 1) : pulses'[i].amp >= pulses'[i + 1].amp
              /\ \A e \in 1..Len(last'.evictions) :
                    LET before == last'.evictions[e].before
                        after == last'.evictions[e].after
                    IN  /\ after = SubSeq(before, 1, Len(before) - 1)
                        /\ \A j \in 1..Len(before) :
                              before[Len(before)].amp <= before[j].amp]_vars

\* WaveKnotFatParam overflowed: the new pulse is at the head with amplitude 1, and
\* pop() dropped the last pulse, older and weaker than the two that stay
C30_Witness ==
    /\ component = "WaveKnotFatParam"
    /\ last.op = "useFrame" /\ last.spawned = 1 /\ Len(last.evictions) = 1
    /\ LET before == last.evictions[1].before
       IN  /\ Len(before) = WaveKnotFatParam_MAX_PULSES + 1
           /\ before[1].amp = ONE
           /\ \A j \in 1..(Len(before) - 1) : before[j + 1].amp < before[j].amp
    /\ Len(pulses) = WaveKnotFatParam_MAX_PULSES
    /\ pulses[1].amp = ONE /\ pulses[1].pos = 0

----------------------------------------------------------------------------
(* The averages over frequency buffers of any length: the buffer grows one bin at a    *)
(* time, and the averaging computation of `component` is applied to it.                *)

\* longest buffer handed to an averaging computation
MaxBufferLen == 7

AverageInit ==
    /\ component \in AveragingSites
    /\ audioElement = NULL
    /\ effect = [deps |-> NULL, cleanup |-> 0]
    /\ pipelines = <<>>
    /\ rms = 0
    /\ frequency = <<>>
    /\ waveform = <<>>
    /\ buffers = [frequency |-> 1, waveform |-> 2]
    /\ beatRef = [isOnset |-> FALSE, confidence |-> 0]
    /\ bandsRef = [lowAvg |-> 0, midAvg |-> 0, highAvg |-> 0,
                   onsets |-> [kick |-> FALSE, snare |-> FALSE, hat |-> FALSE]]
    /\ error = "none"
    /\ pulses = <<>>
    /\ uniforms = <<>>
    /\ refs = <<>>
    /\ frames = 0
    /\ quiet = TRUE
    /\ input = [data |-> <<>>, prevRms |-> 0]
    /\ last = [op |-> "init", arg |-> NULL, was |-> NULL]

\* a buffer one bin longer
AppendBin(v) ==
    /\ Len(frequency) < MaxBufferLen
    /\ frequency' = Append(frequency, v)
    /\ last' = [op |-> "appendBin", arg |-> v, was |-> NULL]
    /\ UNCHANGED <<component, audioElement, effect, pipelines, rms, waveform, buffers,
                   beatRef, bandsRef, error>>
    /\ UNCHANGED presetVars

\* the averaging computation of `component`, applied to the buffer
ComputeAverages ==
    /\ last.op # "average"
    /\ last' = [op |-> "average", site |-> component,
                results |-> Averages(component, frequency)]
    /\ UNCHANGED <<component>>
    /\ UNCHANGED providerVars
    /\ UNCHANGED presetVars

AverageNext ==
    \/ \E v \in {0, 255} : AppendBin(v)
    \/ ComputeAverages

AverageSpec == AverageInit /\ [][AverageNext]_vars

----------------------------------------------------------------------------
(* The decay statement p.amp *= Math.pow(0.5, delta / halfLife) in the arithmetic of   *)
(* JavaScript numbers (IEEE 754 doubles).  A double is [m, e]: the 53-bit significand  *)
(* m as four limbs of 14 bits, lowest first, and the exponent e of its last bit; its   *)
(* value is m * 2^e.                                                                   *)

Limb == 2^14

\* the significand 2^52
PowerOfTwo == <<0, 0, 0, 2^10>>

\* 1.0, 0.8 (0x1.999999999999ap-1) and 0.4
Double_One == [m |-> PowerOfTwo, e |-> -52]
Double_08 == [m |-> <<6554, 9830, 6553, 1638>>, e |-> -53]
Double_04 == [m |-> <<6554, 9830, 6553, 1638>>, e |-> -54]

\* Math.SQRT1_2 = 0x1.6a09e667f3bcdp-1, the double nearest to the square root of 0.5,
\* and the double below it
Double_SqrtHalf == [m |-> <<15309, 6652, 2534, 1448>>, e |-> -53]
Double_SqrtHalfBelow == [m |-> <<15308, 6652, 2534, 1448>>, e |-> -53]

\* x * 2^n
Scaled(x, n) == [x EXCEPT !.e = @ + n]

\* the sum of the limb products a[i] * b[j] of weight Limb^k
Column(a, b, k) ==
    SumSeq([i \in 1..4 |-> IF k - i + 2 \in 1..4 THEN a[i] * b[k - i + 2] ELSE 0])

\* the limbs k .. 7 of the product of the significands a and b
RECURSIVE ProductLimbs(_, _, _, _)
ProductLimbs(a, b, k, carry) ==
    IF k = 8 THEN <<>>
    ELSE LET t == Column(a, b, k) + carry
         IN  <<t % Limb>> \o ProductLimbs(a, b, k + 1, t \div Limb)

\* the significand m + 1, from limb i on
RECURSIVE Increment(_, _)
Increment(m, i) ==
    IF i = 4 \/ m[i] + 1 < Limb THEN [m EXCEPT ![i] = @ + 1]
    ELSE Increment([m EXCEPT ![i] = 0], i + 1)

\* the significand m - 1, from limb i on
RECURSIVE Decrement(_, _)
Decrement(m, i) ==
    IF i = 4 \/ m[i] > 0 THEN [m EXCEPT ![i] = @ - 1]
    ELSE Decrement([m EXCEPT ![i] = Limb - 1], i + 1)

\* the next double above x, and the next below it
NextUp(x) ==
    LET m == Increment(x.m, 1)
    IN  IF m[4] = 2^11 THEN [m |-> PowerOfTwo, e |-> x.e + 1] ELSE [m |-> m, e |-> x.e]

NextDown(x) ==
    IF x.m = PowerOfTwo
    THEN [m |-> <<Limb - 1, Limb - 1, Limb - 1, 2^11 - 1>>, e |-> x.e - 1]
    ELSE [m |-> Decrement(x.m, 1), e |-> x.e]

\* x * y: the exact product rounded to 53 bits, to nearest, ties to even
DoubleMul(x, y) ==
    LET p == ProductLimbs(x.m, y.m, 0, 0)
        \* the product has 106 bits or 105: drop 3 limbs and r bits
        r == IF p[8] >= 2^7 THEN 11 ELSE 10
        q == [m |-> [i \in 1..4 |->
                        p[i + 3] \div 2^r + (p[i + 4] % 2^r) * 2^(14 - r)],
              e |-> x.e + y.e + 42 + r]
        half == (p[4] \div 2^(r - 1)) % 2 = 1
        sticky == p[4] % 2^(r - 1) # 0 \/ p[3] # 0 \/ p[2] # 0 \/ p[1] # 0
    IN  IF half /\ (sticky \/ q.m[1] % 2 = 1) THEN NextUp(q) ELSE q

\* a power whose exponent is the frame delta itself, not divided by the half-life
Pow05_WholeExponent(k, below) == Scaled(Double_One, -k)

\* Math.pow(0.5, k / 2): a power of two for even k, and for odd k a power of two times
\* Math.pow(0.5, 0.5), which is Math.SQRT1_2 or, the square root of 0.5 lying between
\* the two, the double below it (below), the same at every call
Pow05(k, below) ==
    IF k % 2 = 0 THEN Scaled(Double_One, -(k \div 2))
    ELSE Scaled(IF below THEN Double_SqrtHalfBelow ELSE Double_SqrtHalf, -(k \div 2))

\* the presets whose pulses decay with a half-life
HalfLifePresets ==
    {"WaveKnot", "WaveKnotFat", "WaveKnotFatParam", "WaveKnotOrganic", "Bars3DRadiate"}

\* number of frames a pulse is advanced for
MaxDecayFrames == 4

DecayInit ==
    /\ component \in HalfLifePresets
    /\ audioElement = NULL
    /\ effect = [deps |-> NULL, cleanup |-> 0]
    /\ pipelines = <<>>
    /\ rms = 0
    /\ frequency = Silence
    /\ waveform = Silence
    /\ buffers = [frequency |-> 1, waveform |-> 2]
    /\ beatRef = [isOnset |-> FALSE, confidence |-> 0]
    /\ bandsRef = [lowAvg |-> 0, midAvg |-> 0, highAvg |-> 0,
                   onsets |-> [kick |-> FALSE, snare |-> FALSE, hat |-> FALSE]]
    /\ error = "none"
    /\ \E a \in {Double_One, Double_08, Double_04} : pulses = <<[amp |-> a, amp0 |-> a]>>
    /\ uniforms = <<>>
    /\ \E below \in BOOLEAN : refs = [elapsed |-> 0, steps |-> 0, powBelow |-> below]
    /\ frames = 0
    /\ quiet = TRUE
    /\ input = [data |-> <<>>, prevRms |-> 0]
    /\ last = [op |-> "init", arg |-> NULL, was |-> NULL]

\* one frame of k half half-lives (delta = k * halfLife / 2) with no spawn:
\* p.amp *= Math.pow(0.5, delta / halfLife)
DecayFrame(k) ==
    /\ frames < MaxDecayFrames
    /\ pulses' = [i \in 1..Len(pulses) |->
                     [pulses[i] EXCEPT
                         !.amp = DoubleMul(@, Pow05(k, refs.powBelow))]]
    /\ refs' = [refs EXCEPT !.elapsed = @ + k,
                            !.steps = @ + (IF k > 0 THEN 1 ELSE 0)]
    /\ frames' = frames + 1
    /\ last' = [op |-> "decayFrame", arg |-> k, was |-> NULL]
    /\ UNCHANGED <<component, uniforms, quiet, input>>
    /\ UNCHANGED providerVars

DecayNext == \E k \in 0..2 : DecayFrame(k)

DecaySpec == DecayInit /\ [][DecayNext]_vars

\* the doubles at most n doubles away from x
RECURSIVE Around(_, _)
Around(x, n) ==
    IF n = 0 THEN {x}
    ELSE LET S == Around(x, n - 1)
         IN  S \cup { NextUp(y) : y \in S } \cup { NextDown(y) : y \in S }

\* C15 (as the specification states it): a pulse advanced for a total time of one
\* half-life, in one frame or split over several, has exactly half the amplitude it
\* started with.
C15_ExactlyHalf ==
    \A i \in 1..Len(pulses) :
        refs.elapsed = 2 => pulses[i].amp = Scaled(pulses[i].amp0, -1)

\* C15 (amended): a pulse advanced for one half-life in a single frame has exactly half
\* the amplitude it started with; when the time is split over several frames the
\* result is half the starting amplitude up to the rounding of the multiplications,
\* within two units in the last place.
C15_HalfWithinRounding ==
    \A i \in 1..Len(pulses) :
        refs.elapsed = 2 =>
            /\ refs.steps = 1 => pulses[i].amp = Scaled(pulses[i].amp0, -1)
            /\ pulses[i].amp \in Around(Scaled(pulses[i].amp0, -1), 2)

\* C15 witness: amplitude 1.0 advanced for one half-life in two frames of half a
\* half-life each: the result is 0.5000000000000001, the double after 0.5.
C15_Witness ==
    /\ refs.elapsed = 2 /\ refs.steps = 2 /\ ~refs.powBelow
    /\ pulses[1].amp0 = Double_One
    /\ pulses[1].amp = NextUp(Scaled(Double_One, -1))

----------------------------------------------------------------------------
(* TunnelRipple with frames closer together than the debounce *)

\* a frame of 125 ms
QuickFrame == 2^24

\* what a frame reads: silence with no onset, with the extractor's onset, with an rms
\* spike (when the rms before was lower); a full spectrum (mean energy 1.0), alone
\* or with an onset
BeatData ==
    { [frequency |-> [i \in 1..BinCount |-> 0], rms |-> 0, beat |-> [isOnset |-> o]] :
        o \in BOOLEAN }
      \cup { [frequency |-> [i \in 1..BinCount |-> 0], rms |-> Fix(7, 100),
              beat |-> [isOnset |-> FALSE]] }
      \cup { [frequency |-> [i \in 1..BinCount |-> 255], rms |-> 0,
              beat |-> [isOnset |-> o]] : o \in BOOLEAN }

RippleInit ==
    /\ component = "TunnelRipple"
    /\ audioElement = NULL
    /\ effect = [deps |-> NULL, cleanup |-> 0]
    /\ pipelines = <<>>
    /\ rms = 0
    /\ frequency = Silence
    /\ waveform = Silence
    /\ buffers = [frequency |-> 1, waveform |-> 2]
    /\ beatRef = [isOnset |-> FALSE, confidence |-> 0]
    /\ bandsRef = [lowAvg |-> 0, midAvg |-> 0, highAvg |-> 0,
                   onsets |-> [kick |-> FALSE, snare |-> FALSE, hat |-> FALSE]]
    /\ error = "none"
    /\ pulses = <<>>
    /\ uniforms = InitUniforms(component)
    /\ refs = InitRefs(component)
    /\ frames = 0
    /\ quiet = TRUE
    /\ input = [data |-> <<>>, prevRms |-> 0]
    /\ last = [op |-> "init", arg |-> NULL, was |-> NULL]

RippleNext ==
    \E delta \in {QuickFrame, TunnelRipple_FrameUnit}, data \in BeatData :
        TunnelRipple_useFrame(delta, data)

RippleSpec == RippleInit /\ [][RippleNext]_vars

\* C26: any two ripples spawned one after the other, by a beat or by the energy rule,
\* are at least 200 ms apart, and a frame spawns at most one ripple.
C26_RippleSpacing ==
    /\ \A i \in 1..(Len(pulses) - 1) :
          pulses[i].timestamp - pulses[i + 1].timestamp >= 200
    /\ last.op = "useFrame" =>
          /\ last.spawned <= 1
          /\ Cardinality({i \in 1..Len(pulses) : pulses[i].timestamp = refs.now})
                = last.spawned

\* a beat ripple 250 ms after an energy ripple, the onset of the frame between them
\* having been debounced
C26_Witness ==
    /\ last.op = "useFrame" /\ last.spawned = 1 /\ Len(pulses) >= 2
    /\ pulses[1].amp0 = ONE /\ pulses[2].amp0 # ONE
    /\ pulses[1].timestamp - pulses[2].timestamp = 250

----------------------------------------------------------------------------
(* TunnelRipple over any number of frames.  The code uses Date.now() only in   *)
(* differences with lastBeatTime, so the clock is kept where it is and the     *)
(* stored times are set back by each frame's length.  currentHue and           *)
(* beatHistory, which the spawn rules write and never read, are left as they   *)
(* are.                                                                        *)

\* a stored time further back than this many ms is kept as this many ms back: each
\* comparison of the code (timeDiff < 200, 120 <= timeDiff <= 1500, > 500) and the
\* life of a ripple (2 s at RIPPLE_SPEED 0.5) fall within it
Horizon == 2000

\* the time t after the clock moved on by elapsed ms, seen from the clock
Rebase(t, elapsed) == Max(FirstFrameTime - Horizon, t - elapsed)

\* useFrame, delta seconds after the frame before; frames is the parity of the
\* number of frames delivered
BeatFrame(delta, data) ==
    /\ component = "TunnelRipple"
    /\ LET frame == TunnelRipple_Frame(pulses, refs, delta, data)
           elapsed == Millis(delta)
       IN  /\ pulses' = [i \in 1..Len(frame.pulses) |->
                            [frame.pulses[i] EXCEPT !.timestamp = Rebase(@, elapsed)]]
           /\ refs' = [frame.refs EXCEPT
                         !.now = refs.now,
                         !.lastBeatTime = Rebase(@, elapsed),
                         !.currentHue = refs.currentHue,
                         !.beatHistory = refs.beatHistory]
           /\ uniforms' = frame.uniforms
           /\ last' = frame.last
    /\ frames' = (frames + 1) % 2
    /\ quiet' = (quiet /\ NoSource(data))
    /\ input' = Seen(data)
    /\ UNCHANGED component
    /\ UNCHANGED providerVars

\* frames half a second apart, or after a pause of 2.5 s
BeatNext ==
    \E delta \in {TunnelRipple_FrameUnit, 5 * TunnelRipple_FrameUnit}, data \in BeatData :
        BeatFrame(delta, data)

\* one more frame was delivered
FrameDelivered == frames' = (frames + 1) % 2

\* the render loop keeps calling useFrame: a frame is always due, and every step
\* that delivers one is a BeatFrame step
BeatSpec == RippleInit /\ [][BeatNext]_vars /\ WF_frames(FrameDelivered)

\* the last frame came 500 ms after the one before, detected an onset (the
\* extractor's or an rms spike) and read a mean energy of at most 0.4
OnsetFrame ==
    /\ last.op = "useFrame" /\ last.delta = TunnelRipple_FrameUnit
    /\ \/ input.data.beat.isOnset
       \/ /\ input.data.rms > MulDiv(input.prevRms, 115, 100)
          /\ input.data.rms > BEAT_THRESHOLD
    /\ Energy(input.data.frequency) <= Fix(4, 10)

\* the last frame spawned a ripple without the energy rule: a beat ripple
BeatRipple ==
    /\ last.op = "useFrame" /\ last.spawned = 1
    /\ Energy(input.data.frequency) <= Fix(4, 10)

\* C27: beat detection never locks out for good.  From the initial state
\* (lastBeatTime = 0) or any later one, if from some frame on every frame detects an
\* onset 500 ms after the one before, with the mean energy at or below 0.4, beat
\* ripples keep being spawned.
C27_BeatEventually == <>[]OnsetFrame => []<>BeatRipple

----------------------------------------------------------------------------
(* Pulses over any number of frames: WaveKnotFat, whose pulses wrap and decay  *)
(* by half-lives, and TunnelRipple, whose ripples travel once.                 *)

ExpireInit ==
    /\ component \in {"WaveKnotFat", "TunnelRipple"}
    /\ audioElement = NULL
    /\ effect = [deps |-> NULL, cleanup |-> 0]
    /\ pipelines = <<>>
    /\ rms = 0
    /\ frequency = Silence
    /\ waveform = Silence
    /\ buffers = [frequency |-> 1, waveform |-> 2]
    /\ beatRef = [isOnset |-> FALSE, confidence |-> 0]
    /\ bandsRef = [lowAvg |-> 0, midAvg |-> 0, highAvg |-> 0,
                   onsets |-> [kick |-> FALSE, snare |-> FALSE, hat |-> FALSE]]
    /\ error = "none"
    /\ pulses = <<>>
    /\ uniforms = InitUniforms(component)
    /\ refs = InitRefs(component)
    /\ frames = 0
    /\ quiet = TRUE
    /\ input = [data |-> <<>>, prevRms |-> 0]
    /\ last = [op |-> "init", arg |-> NULL, was |-> NULL]

\* useFrame of WaveKnotFat; frames is the parity of the number of frames delivered
WaveKnotFat_anyFrame(delta, data) ==
    /\ component = "WaveKnotFat"
    /\ LET frame == WaveKnotFat_Frame(pulses, refs, delta, data)
       IN  /\ pulses' = frame.pulses
           /\ refs' = frame.refs
           /\ uniforms' = frame.uniforms
           /\ last' = frame.last
    /\ frames' = (frames + 1) % 2
    /\ quiet' = (quiet /\ NoSource(data))
    /\ input' = Seen(data)
    /\ UNCHANGED component
    /\ UNCHANGED providerVars

\* what a WaveKnotFat frame reads: no onset, the extractor's onset, or an rms spike
\* (when the rms before was 0)
ExpireData ==
    { [rms |-> 0, beat |-> [isOnset |-> o]] : o \in BOOLEAN }
      \cup { [rms |-> Fix(5, 100), beat |-> [isOnset |-> FALSE]] }

ExpireNext ==
    \/ \E delta \in Deltas(WaveKnotFat_HalfLife, 5), data \in ExpireData :
          WaveKnotFat_anyFrame(delta, data)
    \/ \E delta \in {TunnelRipple_FrameUnit, 5 * TunnelRipple_FrameUnit},
             data \in BeatData :
          BeatFrame(delta, data)

\* the render loop keeps calling useFrame
ExpireSpec == ExpireInit /\ [][ExpireNext]_vars /\ WF_frames(FrameDelivered)

\* the last frame took time and spawned nothing
IdleFrame == last.op = "useFrame" /\ last.delta > 0 /\ last.spawned = 0

\* no pulse is live and none is packed
NoneLeft ==
    /\ pulses = <<>>
    /\ CountOf(uniforms) = 0
    /\ \A name \in ArraysOf(uniforms) :
          \A i \in 1..Capacity(component) : uniforms[name][i] = 0

----------------------------------------------------------------------------
(* The provider with a preset mounted under it.  The preset's useFrame reads   *)
(* the analyserData prop of its last render; refs holds that prop.             *)

\* value.data as a render of the provider builds it, the shared buffers apart:
\* rms, beat: beatRef.current, bands: bandsRef.current
Rendered == [rms |-> rms, beat |-> beatRef, bands |-> bandsRef]

RenderInit ==
    /\ component = "AudioAnalyserProvider"
    /\ audioElement = NULL
    /\ effect = [deps |-> NULL, cleanup |-> 0]
    /\ pipelines = <<>>
    /\ rms = 0
    /\ frequency = Silence
    /\ waveform = Silence
    /\ buffers = [frequency |-> 1, waveform |-> 2]
    /\ beatRef = [isOnset |-> FALSE, confidence |-> 0]
    /\ bandsRef = [lowAvg |-> 0, midAvg |-> 0, highAvg |-> 0,
                   onsets |-> [kick |-> FALSE, snare |-> FALSE, hat |-> FALSE]]
    /\ error = "none"
    /\ pulses = <<>>
    /\ uniforms = <<>>
    /\ refs = [analyserData |-> Rendered]
    /\ frames = 0
    /\ quiet = TRUE
    /\ input = [data |-> <<>>, prevRms |-> 0]
    /\ last = [op |-> "init", arg |-> NULL, was |-> NULL]

\* a render of the provider (a state of its own or of App changed) and, through the
\* context, of VisualizerMount and the preset: the preset gets the new value.data
Render ==
    /\ component = "AudioAnalyserProvider"
    /\ error = "none"
    /\ refs' = [analyserData |-> Rendered]
    /\ last' = [op |-> "render", arg |-> 0, was |-> 0]
    /\ UNCHANGED <<component, pulses, uniforms, frames, quiet, input>>
    /\ UNCHANGED providerVars

\* the preset's useFrame callback reads analyserData
PresetFrame ==
    /\ component = "AudioAnalyserProvider"
    /\ error = "none"
    /\ input' = [data |-> refs.analyserData, prevRms |-> 0]
    /\ last' = [op |-> "presetFrame", arg |-> 0, was |-> 0]
    /\ UNCHANGED <<component, pulses, uniforms, refs, frames, quiet>>
    /\ UNCHANGED providerVars

\* what the analyser node writes on a tick here: silence or a full spectrum
RenderReads ==
    { read \in TickReads :
        \A k \in 1..BinCount :
            read.frequency[k] \in {0, 255} /\ read.frequency[k] = read.frequency[1] }

RenderNext ==
    \/ SetAudioElement("audioA")
    \/ \E meydaOk \in BOOLEAN : CommitEffect(meydaOk, FALSE)
    \/ \E read \in RenderReads : Tick(1, read.frequency, read.waveform)
    \/ \E f \in MeydaFeatures : MeydaCallback(1, f)
    \/ Render
    \/ PresetFrame

RenderSpec == RenderInit /\ [][RenderNext]_vars

\* C29: the snapshot a preset reads in a frame carries the beat computed by the most
\* recent extractor tick, however ticks, loudness callbacks and renders interleave.
C29_FreshBeat ==
    last.op = "presetFrame" => input.data.beat = beatRef

====
